---- MODULE Spec2Model ----
(***************************************************************************)
(* Project Tracking System: the Express server (src/server.js) with its    *)
(* JSON-file record store, and the client-side computations of             *)
(* utils.js / resources.js (src/unnamed/part_002).                         *)
(*                                                                         *)
(* A JSON object is a function from a finite set of field names to values. *)
(* A collection file is a sequence of objects.  An identifier is the pair  *)
(* <<time part, random part>> of generateId; a timestamp string is the     *)
(* pair <<"T", ms>> produced by toISOString.  inflight holds the requests   *)
(* Express has accepted, each queued for its handler or already answered.  *)
(***************************************************************************)
EXTENDS Integers, Sequences, FiniteSets, TLC

VARIABLES users, projects, tasks, resources, unreadable, now, res, deletedIds,
          appState, ui, form, inflight

vars == <<users, projects, tasks, resources, unreadable, now, res, deletedIds,
          appState, ui, form, inflight>>

\* The browser's state: the data cache, the rendered page, the open form.
client == <<appState, ui, form>>

(* ------------------------------ bounds -------------------------------- *)

\* Largest number of records a create request may bring a collection to.
MaxLen == 2

\* Largest number of tasks of one project in the progress report's inputs.
MaxTasks == 40

\* Largest number of hours a resource form carries.
MaxHours == 40

\* Last millisecond of the server clock that the model explores.
MaxClock == 2

\* Number of distinct values Math.random() contributes to an identifier.
RndSize == 2

\* Largest number of requests in flight together.
MaxInflight == 2

(* --------------------------- JSON objects ----------------------------- *)

Has(o, k) == k \in DOMAIN o

\* { ...a, ...b }: every key of either, b's value where both have the key.
Spread(a, b) ==
    [k \in (DOMAIN a) \cup (DOMAIN b) |-> IF k \in DOMAIN b THEN b[k] ELSE a[k]]

\* const { password, ...rest } = o
Without(o, k) == [f \in (DOMAIN o) \ {k} |-> o[f]]

\* The objects that lack field k or carry it with a value of V.
OptField(k, V) == {<<>>} \cup { [f \in {k} |-> v] : v \in V }

\* a[k] === b[k], where a missing key reads as undefined.
SameField(a, b, k) ==
    IF Has(a, k) /\ Has(b, k) THEN a[k] = b[k] ELSE ~Has(a, k) /\ ~Has(b, k)

\* o[k] === v for a defined value v.
FieldIs(o, k, v) == Has(o, k) /\ o[k] = v

\* new Date(ms).toISOString(): one string per millisecond.
ToISOString(ms) == <<"T", ms>>

\* JSON null (used for completedDate).
Null == <<>>

\* o[k], undefined (here Null) when the object has no such field.
Field(o, k) == IF Has(o, k) THEN o[k] ELSE Null

\* arr.filter(o => o.id !== id)
RECURSIVE FilterOutId(_, _)
FilterOutId(arr, id) ==
    IF arr = <<>> THEN <<>>
    ELSE IF FieldIs(Head(arr), "id", id) THEN FilterOutId(Tail(arr), id)
         ELSE <<Head(arr)>> \o FilterOutId(Tail(arr), id)

\* A search that falls back on the first record when none matches.
FindIndexOrFirst(arr, id) ==
    IF \E i \in 1..Len(arr) : FieldIs(arr[i], "id", id)
    THEN CHOOSE i \in 1..Len(arr) :
            FieldIs(arr[i], "id", id) /\ \A j \in 1..(i - 1) : ~FieldIs(arr[j], "id", id)
    ELSE IF arr = <<>> THEN 0 ELSE 1

\* arr.findIndex(o => o.id === id); 0 stands for -1 (sequences start at 1).
FindIndex(arr, id) ==
    IF \E i \in 1..Len(arr) : FieldIs(arr[i], "id", id)
    THEN CHOOSE i \in 1..Len(arr) :
            /\ FieldIs(arr[i], "id", id)
            /\ \A j \in 1..(i - 1) : ~FieldIs(arr[j], "id", id)
    ELSE 0

(* ------------------ IEEE-754 double arithmetic ------------------------ *)
(* A positive double is [sig, e]: sig holds its 53 significand bits as     *)
(* five limbs <<1, d1, d2, d3, d4>>, the leading bit and four limbs of 13  *)
(* bits, most significant first; e is the exponent of the leading bit, so  *)
(* the value is (sig read as a binary number) * 2^(e - 52).  Zero has      *)
(* sig = <<>>.                                                             *)

Limb == 2^13

Zero == [sig |-> <<>>, e |-> 0]

\* The greatest k with den * 2^k <= num (for num >= den > 0).
RECURSIVE ShiftsUp(_, _)
ShiftsUp(num, den) == IF 2 * den <= num THEN 1 + ShiftsUp(num, 2 * den) ELSE 0

\* The least j with num * 2^j >= den (for 0 < num).
RECURSIVE ShiftsDown(_, _)
ShiftsDown(num, den) == IF num >= den THEN 0 ELSE 1 + ShiftsDown(2 * num, den)

\* n more quotient limbs of r / den (r < den) by long division, then the remainder.
RECURSIVE QuotientLimbs(_, _, _)
QuotientLimbs(r, den, n) ==
    IF n = 0 THEN [limbs |-> <<>>, r |-> r]
    ELSE LET rest == QuotientLimbs((r * Limb) % den, den, n - 1)
         IN  [limbs |-> <<(r * Limb) \div den>> \o rest.limbs, r |-> rest.r]

\* limbs + 1 as a number in base Limb; carry is 1 when it overflows the width.
RECURSIVE Increment(_)
Increment(limbs) ==
    IF limbs = <<>> THEN [limbs |-> <<>>, carry |-> 1]
    ELSE LET n == Len(limbs)
             front == SubSeq(limbs, 1, n - 1)
         IN  IF limbs[n] + 1 < Limb
             THEN [limbs |-> Append(front, limbs[n] + 1), carry |-> 0]
             ELSE LET up == Increment(front)
                  IN  [limbs |-> Append(up.limbs, 0), carry |-> up.carry]

\* Round to nearest, ties to even: guard is the first dropped bit, sticky
\* whether any later dropped bit is set.
RoundNearestEven(sig, e, guard, sticky) ==
    IF guard = 1 /\ (sticky \/ sig[Len(sig)] % 2 = 1)
    THEN LET up == Increment(Tail(sig))
         IN  IF up.carry = 1
             THEN [sig |-> <<1>> \o up.limbs, e |-> e + 1]
             ELSE [sig |-> <<1>> \o up.limbs, e |-> e]
    ELSE [sig |-> sig, e |-> e]

\* The double nearest to num / den, for integers 0 <= num and 0 < den.
FloatDiv(num, den) ==
    IF num = 0 THEN Zero
    ELSE LET up == IF num >= den THEN ShiftsUp(num, den) ELSE 0
             down == IF num >= den THEN 0 ELSE ShiftsDown(num, den)
             n == num * 2^down
             d == den * 2^up
             q == QuotientLimbs(n - d, d, 4)
             guard == IF 2 * q.r >= d THEN 1 ELSE 0
             sticky == (2 * q.r - guard * d) # 0
         IN  RoundNearestEven(<<1>> \o q.limbs, up - down, guard, sticky)

\* limbs * k + carry in base Limb; the leading limb of the result is not reduced.
RECURSIVE TimesSmall(_, _, _)
TimesSmall(limbs, k, carry) ==
    LET n == Len(limbs)
        v == limbs[n] * k + carry
    IN  IF n = 1 THEN <<v>>
        ELSE Append(TimesSmall(SubSeq(limbs, 1, n - 1), k, v \div Limb), v % Limb)

\* The number of bits of v above its lowest: floor(log2 v), for v >= 1.
RECURSIVE Log2(_)
Log2(v) == IF v < 2 THEN 0 ELSE 1 + Log2(v \div 2)

\* The double nearest to x * k, for an integer 1 <= k < Limb.
FloatTimes(x, k) ==
    IF x.sig = <<>> THEN Zero
    ELSE LET p == TimesSmall(x.sig, k, 0)
             s == Log2(p[1])
             shifted == [i \in 1..Len(p) |->
                            IF i = 1 THEN p[1] \div 2^s
                            ELSE (p[i - 1] % 2^s) * (Limb \div 2^s) + p[i] \div 2^s]
             last == p[Len(p)]
         IN  IF s = 0 THEN [sig |-> p, e |-> x.e]
             ELSE RoundNearestEven(shifted, x.e + s,
                                   (last \div 2^(s - 1)) % 2,
                                   last % 2^(s - 1) # 0)

\* Math.round(x) for a double 0 <= x < 2^25: the nearest integer, a tie going up.
MathRound(x) ==
    IF x.sig = <<>> \/ x.e < -1 THEN 0
    ELSE LET top == (x.sig[1] * Limb + x.sig[2]) * Limb + x.sig[3]
             whole == top \div 2^(25 - x.e)
         IN  (whole \div 2) + (whole % 2)

\* Math.round((part / total) * 100) for integers part >= 0 and total > 0.
RoundedPercent(part, total) == MathRound(FloatTimes(FloatDiv(part, total), 100))

(* --------------------------- record store ----------------------------- *)

\* readDataFile returns null for a missing or malformed file.
ReadFails(filename) == filename \in unreadable

\* Date.now().toString(36) + Math.random().toString(36).substr(2)
generateId(t, r) == <<t, r>>

\* The response Express sends when a handler throws (null.find, null.push...).
Uncaught(op, id) ==
    [op |-> op, status |-> 500, id |-> id, body |-> [uncaught |-> "TypeError"],
     assigned |-> <<>>]

Response(op, status, id, body) ==
    [op |-> op, status |-> status, id |-> id, body |-> body, assigned |-> <<>>]

NoId == <<-1, -1>>

\* req.query.projectId when the query string has none (or an empty one).
NoProject == <<-1, -1>>

(* --------------------------- environment ------------------------------ *)

\* The server clock advances between requests.
Tick ==
    /\ now < MaxClock
    /\ now' = now + 1
    /\ UNCHANGED <<users, projects, tasks, resources, unreadable, res, deletedIds,
                   client, inflight>>

\* A data file is removed or corrupted out of band.
BreakFile(f) ==
    /\ f \notin unreadable
    /\ unreadable' = unreadable \cup {f}
    /\ UNCHANGED <<users, projects, tasks, resources, now, res, deletedIds,
                   client, inflight>>

\* The data file is put back with the content it had.
RepairFile(f) ==
    /\ f \in unreadable
    /\ unreadable' = unreadable \ {f}
    /\ UNCHANGED <<users, projects, tasks, resources, now, res, deletedIds,
                   client, inflight>>

(* ---------------------------- projects API ---------------------------- *)

\* newProject of POST /api/projects: t0, t1, t2 are the three clock readings.
NewProject(body, t0, r, t1, t2) ==
    Spread(Spread([id |-> generateId(t0, r)], body),
           [createdAt |-> ToISOString(t1), updatedAt |-> ToISOString(t2)])

\* An update that appends the body's teamMembers to the stored ones.
UpdatedProjectJoiningLists(existing, body, id, t) ==
    LET merged == Spread(Spread(existing, body),
                         [id |-> id, updatedAt |-> ToISOString(t)])
    IN  IF Has(existing, "teamMembers") /\ Has(body, "teamMembers")
        THEN [merged EXCEPT !.teamMembers = existing.teamMembers \o body.teamMembers]
        ELSE merged

\* projects[index] of PUT /api/projects/:id
UpdatedProject(existing, body, id, t) ==
    Spread(Spread(existing, body), [id |-> id, updatedAt |-> ToISOString(t)])

\* A delete that removes only the first record with the identifier.
FilteredProjectsFirstOnly(arr, id) ==
    LET index == FindIndex(arr, id)
    IN  IF index = 0 THEN arr
        ELSE SubSeq(arr, 1, index - 1) \o SubSeq(arr, index + 1, Len(arr))

\* filteredProjects of DELETE /api/projects/:id
FilteredProjects(arr, id) == FilterOutId(arr, id)

\* GET /api/projects
GetProjects ==
    /\ res' = IF ReadFails("projects.json")
              THEN Response("GET /projects", 500, NoId,
                            [error |-> "Unable to read project data"])
              ELSE Response("GET /projects", 200, NoId, projects)
    /\ UNCHANGED <<users, projects, tasks, resources, unreadable, now, deletedIds,
                   client, inflight>>

\* A read by identifier that is refused unless the last answer the server gave
\* was a successful login.
ProjectByIdAfterLogin(arr, id) ==
    IF res.op = "POST /login" /\ res.status = 200
    THEN IF \E i \in 1..Len(arr) : FieldIs(arr[i], "id", id)
         THEN Response("GET /projects/:id", 200, id,
                       arr[CHOOSE i \in 1..Len(arr) : FieldIs(arr[i], "id", id)])
         ELSE Response("GET /projects/:id", 404, id, [error |-> "Project not found"])
    ELSE Response("GET /projects/:id", 401, id, [error |-> "Not logged in"])

\* The response of GET /api/projects/:id on the stored collection arr.
ProjectById(arr, id) ==
    LET index == FindIndex(arr, id)
    IN  IF index # 0
        THEN Response("GET /projects/:id", 200, id, arr[index])
        ELSE Response("GET /projects/:id", 404, id, [error |-> "Project not found"])

\* GET /api/projects/:id
GetProjectsId(id) ==
    /\ res' = IF ReadFails("projects.json")
              THEN Uncaught("GET /projects/:id", id)
              ELSE ProjectById(projects, id)
    /\ UNCHANGED <<users, projects, tasks, resources, unreadable, now, deletedIds,
                   client, inflight>>

\* POST /api/projects; d1 and d2 are the clock's advances between its reads,
\* r the random part of the identifier, wok whether writeDataFile succeeds.
PostProjects(body, r, d1, d2, wok) ==
    /\ Len(projects) < MaxLen
    /\ now + d1 + d2 <= MaxClock
    /\ IF ReadFails("projects.json")
       THEN /\ res' = Uncaught("POST /projects", NoId)
            /\ UNCHANGED <<projects, now, deletedIds>>
       ELSE LET t0 == now
                t1 == now + d1
                t2 == now + d1 + d2
                newProject == NewProject(body, t0, r, t1, t2)
                srv == [id |-> generateId(t0, r), createdAt |-> ToISOString(t1),
                        updatedAt |-> ToISOString(t2)]
            IN  /\ now' = t2
                /\ IF wok
                   THEN /\ projects' = Append(projects, newProject)
                        /\ res' = [Response("POST /projects", 201, newProject.id,
                                            newProject) EXCEPT !.assigned = srv]
                        /\ deletedIds' = deletedIds \ {newProject.id}
                   ELSE /\ res' = [Response("POST /projects", 500, NoId,
                                     [error |-> "Failed to create project"])
                                   EXCEPT !.assigned = srv]
                        /\ UNCHANGED <<projects, deletedIds>>
    /\ UNCHANGED <<users, tasks, resources, unreadable, client, inflight>>

\* PUT /api/projects/:id
PutProjectsId(id, body, wok) ==
    /\ IF ReadFails("projects.json")
       THEN /\ res' = Uncaught("PUT /projects/:id", id)
            /\ UNCHANGED projects
       ELSE LET index == FindIndex(projects, id)
            IN  IF index # 0
                THEN LET updated == UpdatedProject(projects[index], body, id, now)
                     IN  IF wok
                         THEN /\ projects' = [projects EXCEPT ![index] = updated]
                              /\ res' = Response("PUT /projects/:id", 200, id, updated)
                         ELSE /\ res' = Response("PUT /projects/:id", 500, id,
                                            [error |-> "Failed to update project"])
                              /\ UNCHANGED projects
                ELSE /\ res' = Response("PUT /projects/:id", 404, id,
                                        [error |-> "Project not found"])
                     /\ UNCHANGED projects
    /\ UNCHANGED <<users, tasks, resources, unreadable, now, deletedIds, client, inflight>>

\* A delete that also removes the tasks of the deleted project.
DeleteProjectsIdCascading(id, wok) ==
    /\ ~ReadFails("projects.json")
    /\ Len(FilterOutId(projects, id)) < Len(projects)
    /\ wok
    /\ projects' = FilterOutId(projects, id)
    /\ tasks' = SelectSeq(tasks, LAMBDA t : ~FieldIs(t, "projectId", id))
    /\ res' = Response("DELETE /projects/:id", 200, id,
                       [success |-> TRUE, message |-> "Project deleted successfully"])
    /\ deletedIds' = deletedIds \cup {id}
    /\ UNCHANGED <<users, resources, unreadable, now, client, inflight>>

\* DELETE /api/projects/:id
DeleteProjectsId(id, wok) ==
    /\ IF ReadFails("projects.json")
       THEN /\ res' = Uncaught("DELETE /projects/:id", id)
            /\ UNCHANGED <<projects, deletedIds>>
       ELSE LET filteredProjects == FilteredProjects(projects, id)
            IN  IF Len(filteredProjects) < Len(projects)
                THEN IF wok
                     THEN /\ projects' = filteredProjects
                          /\ res' = Response("DELETE /projects/:id", 200, id,
                                 [success |-> TRUE,
                                  message |-> "Project deleted successfully"])
                          /\ deletedIds' = deletedIds \cup {id}
                     ELSE /\ res' = Response("DELETE /projects/:id", 500, id,
                                        [error |-> "Failed to delete project"])
                          /\ UNCHANGED <<projects, deletedIds>>
                ELSE /\ res' = Response("DELETE /projects/:id", 404, id,
                                        [error |-> "Project not found"])
                     /\ UNCHANGED <<projects, deletedIds>>
    /\ UNCHANGED <<users, tasks, resources, unreadable, now, client, inflight>>

(* ------------------------------ tasks API ------------------------------ *)

\* newTask of POST /api/tasks
NewTask(body, t0, r, t1, t2) ==
    Spread(Spread([id |-> generateId(t0, r)], body),
           [createdAt |-> ToISOString(t1), updatedAt |-> ToISOString(t2)])

\* An update in which the request body has the last word.
UpdatedTaskBodyLast(existing, body, id, t) ==
    Spread(Spread(existing, [id |-> id, updatedAt |-> ToISOString(t)]), body)

\* tasks[index] of PUT /api/tasks/:id
UpdatedTask(existing, body, id, t) ==
    Spread(Spread(existing, body), [id |-> id, updatedAt |-> ToISOString(t)])

\* A task filter that removes only the first record with the identifier.
FilteredTasksFirstOnly(arr, id) ==
    LET index == FindIndex(arr, id)
    IN  IF index = 0 THEN arr
        ELSE SubSeq(arr, 1, index - 1) \o SubSeq(arr, index + 1, Len(arr))

\* filteredTasks of DELETE /api/tasks/:id
FilteredTasks(arr, id) == FilterOutId(arr, id)

\* A filter that also keeps the tasks without a projectId.
TasksOfOrWithoutProject(arr, projectId) ==
    SelectSeq(arr, LAMBDA t : ~Has(t, "projectId") \/ t.projectId = projectId)

\* tasks.filter(t => t.projectId === projectId)
RECURSIVE TasksOfProject(_, _)
TasksOfProject(arr, projectId) ==
    IF arr = <<>> THEN <<>>
    ELSE IF FieldIs(Head(arr), "projectId", projectId)
         THEN <<Head(arr)>> \o TasksOfProject(Tail(arr), projectId)
         ELSE TasksOfProject(Tail(arr), projectId)

\* GET /api/tasks?projectId=...; NoProject stands for a missing or empty value.
GetTasks(projectId) ==
    /\ res' = IF ReadFails("tasks.json")
              THEN Response("GET /tasks", 500, NoId,
                            [error |-> "Unable to read task data"])
              ELSE IF projectId # NoProject
                   THEN Response("GET /tasks", 200, NoId,
                                 TasksOfProject(tasks, projectId))
                   ELSE Response("GET /tasks", 200, NoId, tasks)
    /\ UNCHANGED <<users, projects, tasks, resources, unreadable, now, deletedIds,
                   client, inflight>>

\* A create that refuses a task whose projectId no stored project has.
PostTasksCheckingProject(body, r, d1, d2, wok) ==
    /\ Len(tasks) < MaxLen
    /\ LET newTask == NewTask(body, now, r, now, now)
           known == \E i \in 1..Len(projects) :
                       Has(body, "projectId") /\ FieldIs(projects[i], "id", body.projectId)
       IN  IF known /\ wok
           THEN /\ tasks' = Append(tasks, newTask)
                /\ res' = Response("POST /tasks", 201, newTask.id, newTask)
           ELSE /\ res' = Response("POST /tasks", IF known THEN 500 ELSE 400, NoId,
                                   [error |-> "Failed to create task"])
                /\ UNCHANGED tasks
    /\ UNCHANGED <<users, projects, resources, unreadable, now, deletedIds, client,
                   inflight>>

\* POST /api/tasks
PostTasks(body, r, d1, d2, wok) ==
    /\ Len(tasks) < MaxLen
    /\ now + d1 + d2 <= MaxClock
    /\ IF ReadFails("tasks.json")
       THEN /\ res' = Uncaught("POST /tasks", NoId)
            /\ UNCHANGED <<tasks, now>>
       ELSE LET t0 == now
                t1 == now + d1
                t2 == now + d1 + d2
                newTask == NewTask(body, t0, r, t1, t2)
                srv == [id |-> generateId(t0, r), createdAt |-> ToISOString(t1),
                        updatedAt |-> ToISOString(t2)]
            IN  /\ now' = t2
                /\ IF wok
                   THEN /\ tasks' = Append(tasks, newTask)
                        /\ res' = [Response("POST /tasks", 201, newTask.id, newTask)
                                   EXCEPT !.assigned = srv]
                   ELSE /\ res' = [Response("POST /tasks", 500, NoId,
                                            [error |-> "Failed to create task"])
                                   EXCEPT !.assigned = srv]
                        /\ UNCHANGED tasks
    /\ UNCHANGED <<users, projects, resources, unreadable, deletedIds, client, inflight>>

\* The server's part of POST /api/tasks when the clock does not advance during
\* the request: the response and the stored file.
PostTasksResult(body, r, wok) ==
    IF ReadFails("tasks.json")
    THEN [res |-> Uncaught("POST /tasks", NoId), tasks |-> tasks]
    ELSE LET newTask == NewTask(body, now, r, now, now)
         IN  IF wok
             THEN [res |-> Response("POST /tasks", 201, newTask.id, newTask),
                   tasks |-> Append(tasks, newTask)]
             ELSE [res |-> Response("POST /tasks", 500, NoId,
                                    [error |-> "Failed to create task"]),
                   tasks |-> tasks]

\* The server's part of PUT /api/tasks/:id: the response and the stored file.
PutTasksIdResult(id, body, wok) ==
    IF ReadFails("tasks.json")
    THEN [res |-> Uncaught("PUT /tasks/:id", id), tasks |-> tasks]
    ELSE LET index == FindIndex(tasks, id)
         IN  IF index # 0
             THEN LET updated == UpdatedTask(tasks[index], body, id, now)
                  IN  IF wok
                      THEN [res |-> Response("PUT /tasks/:id", 200, id, updated),
                            tasks |-> [tasks EXCEPT ![index] = updated]]
                      ELSE [res |-> Response("PUT /tasks/:id", 500, id,
                                             [error |-> "Failed to update task"]),
                            tasks |-> tasks]
             ELSE [res |-> Response("PUT /tasks/:id", 404, id,
                                    [error |-> "Task not found"]),
                   tasks |-> tasks]

\* PUT /api/tasks/:id
PutTasksId(id, body, wok) ==
    /\ IF ReadFails("tasks.json")
       THEN /\ res' = Uncaught("PUT /tasks/:id", id)
            /\ UNCHANGED tasks
       ELSE LET index == FindIndex(tasks, id)
            IN  IF index # 0
                THEN LET updated == UpdatedTask(tasks[index], body, id, now)
                     IN  IF wok
                         THEN /\ tasks' = [tasks EXCEPT ![index] = updated]
                              /\ res' = Response("PUT /tasks/:id", 200, id, updated)
                         ELSE /\ res' = Response("PUT /tasks/:id", 500, id,
                                            [error |-> "Failed to update task"])
                              /\ UNCHANGED tasks
                ELSE /\ res' = Response("PUT /tasks/:id", 404, id,
                                        [error |-> "Task not found"])
                     /\ UNCHANGED tasks
    /\ UNCHANGED <<users, projects, resources, unreadable, now, deletedIds,
                   client, inflight>>

\* DELETE /api/tasks/:id
DeleteTasksId(id, wok) ==
    /\ IF ReadFails("tasks.json")
       THEN /\ res' = Uncaught("DELETE /tasks/:id", id)
            /\ UNCHANGED tasks
       ELSE LET filteredTasks == FilteredTasks(tasks, id)
            IN  IF Len(filteredTasks) < Len(tasks)
                THEN IF wok
                     THEN /\ tasks' = filteredTasks
                          /\ res' = Response("DELETE /tasks/:id", 200, id,
                                 [success |-> TRUE,
                                  message |-> "Task deleted successfully"])
                     ELSE /\ res' = Response("DELETE /tasks/:id", 500, id,
                                        [error |-> "Failed to delete task"])
                          /\ UNCHANGED tasks
                ELSE /\ res' = Response("DELETE /tasks/:id", 404, id,
                                        [error |-> "Task not found"])
                     /\ UNCHANGED tasks
    /\ UNCHANGED <<users, projects, resources, unreadable, now, deletedIds,
                   client, inflight>>

(* ---------------------------- resources API ---------------------------- *)

\* newResource of POST /api/resources
NewResource(body, t0, r, t1) ==
    Spread(Spread([id |-> generateId(t0, r)], body),
           [createdAt |-> ToISOString(t1)])

\* resources[index] of PUT /api/resources/:id
UpdatedResource(existing, body, id) ==
    Spread(Spread(existing, body), [id |-> id])

\* GET /api/resources
GetResources ==
    /\ res' = IF ReadFails("resources.json")
              THEN Response("GET /resources", 500, NoId,
                            [error |-> "Unable to read resource data"])
              ELSE Response("GET /resources", 200, NoId, resources)
    /\ UNCHANGED <<users, projects, tasks, resources, unreadable, now, deletedIds,
                   client, inflight>>

\* The server's part of POST /api/resources: the response and the stored file.
PostResourcesResult(body, r, d1, wok) ==
    IF ReadFails("resources.json")
    THEN [res |-> Uncaught("POST /resources", NoId), resources |-> resources,
          now |-> now]
    ELSE LET t0 == now
             t1 == now + d1
             newResource == NewResource(body, t0, r, t1)
             srv == [id |-> generateId(t0, r), createdAt |-> ToISOString(t1)]
         IN  IF wok
             THEN [res |-> [Response("POST /resources", 201, newResource.id,
                                     newResource) EXCEPT !.assigned = srv],
                   resources |-> Append(resources, newResource), now |-> t1]
             ELSE [res |-> [Response("POST /resources", 500, NoId,
                              [error |-> "Failed to create resource allocation"])
                            EXCEPT !.assigned = srv],
                   resources |-> resources, now |-> t1]

\* POST /api/resources
PostResources(body, r, d1, wok) ==
    /\ Len(resources) < MaxLen
    /\ now + d1 <= MaxClock
    /\ LET out == PostResourcesResult(body, r, d1, wok)
       IN  /\ res' = out.res
           /\ resources' = out.resources
           /\ now' = out.now
    /\ UNCHANGED <<users, projects, tasks, unreadable, deletedIds, client, inflight>>

\* The server's part of PUT /api/resources/:id: the response and the stored file.
PutResourcesIdResult(id, body, wok) ==
    IF ReadFails("resources.json")
    THEN [res |-> Uncaught("PUT /resources/:id", id), resources |-> resources]
    ELSE LET index == FindIndex(resources, id)
         IN  IF index # 0
             THEN LET updated == UpdatedResource(resources[index], body, id)
                  IN  IF wok
                      THEN [res |-> Response("PUT /resources/:id", 200, id, updated),
                            resources |-> [resources EXCEPT ![index] = updated]]
                      ELSE [res |-> Response("PUT /resources/:id", 500, id,
                                        [error |-> "Failed to update resource"]),
                            resources |-> resources]
             ELSE [res |-> Response("PUT /resources/:id", 404, id,
                                    [error |-> "Resource not found"]),
                   resources |-> resources]

\* PUT /api/resources/:id
PutResourcesId(id, body, wok) ==
    /\ LET out == PutResourcesIdResult(id, body, wok)
       IN  /\ res' = out.res
           /\ resources' = out.resources
    /\ UNCHANGED <<users, projects, tasks, unreadable, now, deletedIds, client, inflight>>

\* A DELETE route for allocations, written like the one for tasks.
DeleteResourcesIdRemoving(id) ==
    LET filteredResources == FilterOutId(resources, id)
    IN  IF Len(filteredResources) < Len(resources)
        THEN [res |-> Response("DELETE /resources/:id", 200, id,
                        [success |-> TRUE,
                         message |-> "Resource deleted successfully"]),
              resources |-> filteredResources]
        ELSE [res |-> Response("DELETE /resources/:id", 404, id,
                               [error |-> "Resource not found"]),
              resources |-> resources]

\* The server's answer to DELETE /api/resources/:id: no route is registered for
\* it, so Express answers 404 with its own HTML page and no file is touched.
DeleteResourcesIdResult(id) ==
    [res |-> Response("DELETE /resources/:id", 404, id,
                      [html |-> "Cannot DELETE /api/resources/:id"]),
     resources |-> resources]

\* DELETE /api/resources/:id
DeleteResourcesId(id) ==
    /\ LET out == DeleteResourcesIdResult(id)
       IN  /\ res' = out.res
           /\ resources' = out.resources
    /\ UNCHANGED <<users, projects, tasks, unreadable, now, deletedIds, client, inflight>>

(* ----------------------------- reports API ----------------------------- *)

\* A count that also takes in the records without any status.
CountStatusOrNone(arr, status) ==
    Cardinality({ i \in 1..Len(arr) :
                    FieldIs(arr[i], "status", status) \/ ~Has(arr[i], "status") })

\* arr.filter(o => o.status === status).length
CountStatus(arr, status) ==
    Cardinality({ i \in 1..Len(arr) : FieldIs(arr[i], "status", status) })

\* p.budget || 0 : a missing (undefined) or zero amount counts as 0.
OrZero(o, k) == IF Has(o, k) THEN o[k] ELSE 0

\* arr.reduce((sum, p) => sum + (p[k] || 0), 0)
RECURSIVE ReduceSum(_, _, _)
ReduceSum(arr, k, sum) ==
    IF arr = <<>> THEN sum
    ELSE ReduceSum(Tail(arr), k, sum + OrZero(Head(arr), k))

\* Statistics whose budget totals run over the active projects only.
DashboardStatsActiveOnly(ps, ts, rs) ==
    LET active == SelectSeq(ps, LAMBDA p : FieldIs(p, "status", "active"))
    IN  [totalProjects |-> Len(ps),
         activeProjects |-> CountStatus(ps, "active"),
         totalTasks |-> Len(ts),
         completedTasks |-> CountStatus(ts, "completed"),
         inProgressTasks |-> CountStatus(ts, "in-progress"),
         totalResources |-> Len(rs),
         totalBudget |-> ReduceSum(active, "budget", 0),
         budgetSpent |-> ReduceSum(active, "budgetSpent", 0)]

\* stats of GET /api/reports/dashboard
DashboardStats(ps, ts, rs) ==
    [totalProjects |-> Len(ps),
     activeProjects |-> CountStatus(ps, "active"),
     totalTasks |-> Len(ts),
     completedTasks |-> CountStatus(ts, "completed"),
     inProgressTasks |-> CountStatus(ts, "in-progress"),
     totalResources |-> Len(rs),
     totalBudget |-> ReduceSum(ps, "budget", 0),
     budgetSpent |-> ReduceSum(ps, "budgetSpent", 0)]

\* GET /api/reports/dashboard
GetReportsDashboard ==
    /\ res' = IF \/ ReadFails("projects.json")
                 \/ ReadFails("tasks.json")
                 \/ ReadFails("resources.json")
              THEN Uncaught("GET /reports/dashboard", NoId)
              ELSE Response("GET /reports/dashboard", 200, NoId,
                            DashboardStats(projects, tasks, resources))
    /\ UNCHANGED <<users, projects, tasks, resources, unreadable, now, deletedIds,
                   client, inflight>>

\* progressPercentage of GET /api/reports/project-progress/:projectId
ProgressPercentage(completedTasks, totalTasks) ==
    IF totalTasks > 0 THEN RoundedPercent(completedTasks, totalTasks) ELSE 0

\* The body of GET /api/reports/project-progress/:projectId
ProgressReport(ts, projectId) ==
    LET projectTasks == TasksOfProject(ts, projectId)
        totalTasks == Len(projectTasks)
        completedTasks == CountStatus(projectTasks, "completed")
    IN  [projectId |-> projectId,
         totalTasks |-> totalTasks,
         completedTasks |-> completedTasks,
         inProgressTasks |-> CountStatus(projectTasks, "in-progress"),
         pendingTasks |-> CountStatus(projectTasks, "pending"),
         progressPercentage |-> ProgressPercentage(completedTasks, totalTasks)]

\* GET /api/reports/project-progress/:projectId
GetReportsProjectProgress(projectId) ==
    /\ res' = IF ReadFails("tasks.json")
              THEN Uncaught("GET /reports/project-progress/:projectId", projectId)
              ELSE Response("GET /reports/project-progress/:projectId", 200,
                            projectId, ProgressReport(tasks, projectId))
    /\ UNCHANGED <<users, projects, tasks, resources, unreadable, now, deletedIds,
                   client, inflight>>

(* --------------------------- authentication ---------------------------- *)

\* A comparison that leaves the password out.
CredentialsMatchUsernameOnly(u, body) == SameField(u, body, "username")

\* u.username === username && u.password === password
CredentialsMatch(u, body) ==
    SameField(u, body, "username") /\ SameField(u, body, "password")

\* users.find(u => ...): the index of the first match, 0 for undefined.
FindUser(us, body) ==
    IF \E i \in 1..Len(us) : CredentialsMatch(us[i], body)
    THEN CHOOSE i \in 1..Len(us) :
            /\ CredentialsMatch(us[i], body)
            /\ \A j \in 1..(i - 1) : ~CredentialsMatch(us[j], body)
    ELSE 0

\* const { password, ...userWithoutPassword } = user
UserWithoutPassword(user) == Without(user, "password")

\* A login that answers an unknown username differently from a wrong password.
LoginResponseNamingUnknownUser(us, body) ==
    IF \E i \in 1..Len(us) : CredentialsMatch(us[i], body)
    THEN Response("POST /login", 200, NoId,
                  [success |-> TRUE,
                   user |-> UserWithoutPassword(
                       us[CHOOSE i \in 1..Len(us) : CredentialsMatch(us[i], body)]),
                   message |-> "Login successful"])
    ELSE IF \E i \in 1..Len(us) : SameField(us[i], body, "username")
    THEN Response("POST /login", 401, NoId,
                  [success |-> FALSE, message |-> "Invalid password"])
    ELSE Response("POST /login", 401, NoId,
                  [success |-> FALSE, message |-> "Unknown username"])

\* The response of POST /api/login for a readable user store.
LoginResponse(us, body) ==
    LET index == FindUser(us, body)
    IN  IF index # 0
        THEN Response("POST /login", 200, NoId,
                      [success |-> TRUE, user |-> UserWithoutPassword(us[index]),
                       message |-> "Login successful"])
        ELSE Response("POST /login", 401, NoId,
                      [success |-> FALSE, message |-> "Invalid username or password"])

\* POST /api/login
PostLogin(body) ==
    /\ res' = IF ReadFails("users.json")
              THEN Response("POST /login", 500, NoId,
                            [error |-> "Unable to read user data"])
              ELSE LoginResponse(users, body)
    /\ UNCHANGED <<users, projects, tasks, resources, unreadable, now, deletedIds,
                   client, inflight>>

\* A list of users that keeps every field.
SafeUsersKeepingPassword(us) == us

\* safeUsers of GET /api/users: users.map(({ password, ...user }) => user)
SafeUsers(us) == [i \in 1..Len(us) |-> Without(us[i], "password")]

\* GET /api/users
GetUsers ==
    /\ res' = IF ReadFails("users.json")
              THEN Response("GET /users", 500, NoId,
                            [error |-> "Unable to read user data"])
              ELSE Response("GET /users", 200, NoId, SafeUsers(users))
    /\ UNCHANGED <<users, projects, tasks, resources, unreadable, now, deletedIds,
                   client, inflight>>

(* ------------------------- requests in flight ------------------------- *)

\* The status field of a request whose handler has not run yet.
Queued == 0

\* Express accepts request req and parses its body; the route handler is queued
\* as a callback.  arrived keeps the projects file as it was at that moment.
Receive(req) ==
    /\ Cardinality(inflight) < MaxInflight
    /\ \A e \in inflight : e.req # req
    /\ inflight' = inflight \cup {[req |-> req, arrived |-> projects, status |-> Queued]}
    /\ UNCHANGED <<users, projects, tasks, resources, unreadable, now, res, deletedIds,
                   client>>

\* A handler that works on the file as it was when its request arrived.
ReadAtArrival(entry) == entry.arrived

\* const projects = readDataFile('projects.json') as the handler's first
\* statement: the file as it is when the callback runs.
ReadByHandler(entry) == projects

\* The handler of a queued write request, from readFileSync to writeFileSync
\* and the reply, with no await in between: the reply and the file it leaves.
WriteResult(entry, r, wok) ==
    LET read == ReadByHandler(entry)
        req == entry.req
    IN  IF ReadFails("projects.json")
        THEN [res |-> Uncaught(req.kind, req.id), projects |-> projects]
        ELSE IF req.kind = "POST"
        THEN LET newProject == NewProject(req.body, now, r, now, now)
             IN  IF wok
                 THEN [res |-> Response("POST /projects", 201, newProject.id,
                                        newProject),
                       projects |-> Append(read, newProject)]
                 ELSE [res |-> Response("POST /projects", 500, NoId,
                                        [error |-> "Failed to create project"]),
                       projects |-> projects]
        ELSE LET index == FindIndex(read, req.id)
             IN  IF index = 0
                 THEN [res |-> Response("PUT /projects/:id", 404, req.id,
                                        [error |-> "Project not found"]),
                       projects |-> projects]
                 ELSE LET updated == UpdatedProject(read[index], req.body, req.id, now)
                      IN  IF wok
                          THEN [res |-> Response("PUT /projects/:id", 200, req.id,
                                                 updated),
                                projects |-> [read EXCEPT ![index] = updated]]
                          ELSE [res |-> Response("PUT /projects/:id", 500, req.id,
                                          [error |-> "Failed to update project"]),
                                projects |-> projects]

\* The event loop runs the handler of one queued request to its end.
RunHandler(entry, r, wok) ==
    /\ entry \in inflight
    /\ entry.status = Queued
    /\ entry.req.kind = "POST" => Len(projects) <= MaxLen
    /\ LET out == WriteResult(entry, r, wok)
       IN  /\ res' = out.res
           /\ projects' = out.projects
           /\ inflight' = (inflight \ {entry})
                              \cup {[entry EXCEPT !.status = out.res.status]}
    /\ UNCHANGED <<users, tasks, resources, unreadable, now, deletedIds, client>>

(* ------------------------ client: resources page ----------------------- *)

\* appState of app.js before any data is loaded.
EmptyAppState ==
    [currentUser |-> Null, projects |-> <<>>, tasks |-> <<>>, users |-> <<>>,
     resources |-> <<>>]

\* What the page shows: the last notification and the utilization column of
\* the resources table.
EmptyUi == [notification |-> "", utilization |-> <<>>]

\* utilizationPercentage of resourceData in handleResourceSubmit
SubmittedUtilization(usedHours, allocatedHours) ==
    IF allocatedHours > 0 THEN RoundedPercent(usedHours, allocatedHours) ELSE 0

\* utilization of one table row in renderResources
RenderedUtilization(resource) ==
    IF Has(resource, "allocatedHours") /\ resource.allocatedHours > 0
    THEN RoundedPercent(OrZero(resource, "usedHours"), resource.allocatedHours)
    ELSE 0

\* The utilization column renderResources builds (no filter set).
UtilizationColumn(rs) == [i \in 1..Len(rs) |-> RenderedUtilization(rs[i])]

\* isValidDateRange(startDate, endDate), dates counted in days.
isValidDateRange(startDate, endDate) == endDate >= startDate

\* getUserById(userId) ? user.fullName : 'Unknown User'
UserNameOf(us, userId) ==
    IF \E i \in 1..Len(us) : FieldIs(us[i], "id", userId)
    THEN (us[CHOOSE i \in 1..Len(us) :
                /\ FieldIs(us[i], "id", userId)
                /\ \A j \in 1..(i - 1) : ~FieldIs(us[j], "id", userId)]).fullName
    ELSE "Unknown User"

\* The resource form while its modal is closed (after resetForm).
ClosedForm == [open |-> FALSE]

\* resourceData of handleResourceSubmit, from the values of the form f.
ResourceData(f) ==
    [projectId |-> f.projectId,
     userId |-> f.userId,
     userName |-> UserNameOf(appState.users, f.userId),
     role |-> f.role,
     allocatedHours |-> f.allocatedHours,
     usedHours |-> f.usedHours,
     hourlyRate |-> f.hourlyRate,
     startDate |-> f.startDate,
     endDate |-> f.endDate,
     utilizationPercentage |-> SubmittedUtilization(f.usedHours, f.allocatedHours),
     status |-> f.status]

\* renderResources
RenderResources ==
    /\ ui' = [ui EXCEPT !.utilization = UtilizationColumn(appState.resources)]
    /\ UNCHANGED <<users, projects, tasks, resources, unreadable, now, res,
                   deletedIds, appState, form, inflight>>

\* handleResourceSubmit on the open form.  form.resourceId is NoId for the empty
\* hidden field.  confirmed is the user's answer to the used-hours warning; r,
\* d1 and wok are the server's random number, clock advance and write outcome.
HandleResourceSubmit(confirmed, r, d1, wok) ==
    /\ form.open
    /\ Has(form, "resourceId")
    /\ form.resourceId = NoId => Len(resources) < MaxLen /\ now + d1 <= MaxClock
    /\ LET resourceData == ResourceData(form)
       IN  IF ~isValidDateRange(resourceData.startDate, resourceData.endDate)
           THEN /\ ui' = [ui EXCEPT
                            !.notification = "End date must be after start date"]
                /\ UNCHANGED <<resources, now, res, appState, form>>
           ELSE IF resourceData.usedHours > resourceData.allocatedHours /\ ~confirmed
           THEN UNCHANGED <<resources, now, res, appState, ui, form>>
           ELSE LET put == PutResourcesIdResult(form.resourceId, resourceData, wok)
                    out == IF form.resourceId # NoId
                           THEN [res |-> put.res, resources |-> put.resources,
                                 now |-> now]
                           ELSE PostResourcesResult(resourceData, r, d1, wok)
                    ok == out.res.status \in {200, 201}
                    cache == IF ok THEN out.resources ELSE appState.resources
                IN  /\ resources' = out.resources
                    /\ now' = out.now
                    /\ res' = IF ok
                              THEN Response("GET /resources", 200, NoId, out.resources)
                              ELSE out.res
                    /\ appState' = [appState EXCEPT !.resources = cache]
                    /\ ui' = [ui EXCEPT
                                !.notification =
                                    IF ~ok THEN "Failed to save resource allocation"
                                    ELSE IF form.resourceId # NoId
                                    THEN "Resource allocation updated successfully"
                                    ELSE "Resource allocated successfully",
                                !.utilization =
                                    IF ok THEN UtilizationColumn(cache) ELSE @]
                    /\ form' = IF ok THEN ClosedForm ELSE form
    /\ UNCHANGED <<users, projects, tasks, unreadable, deletedIds, inflight>>

\* response.ok of fetch: a status from 200 to 299.
ResponseOk(response) == response.status >= 200 /\ response.status <= 299

\* deleteResource(resourceId); confirmed is the user's answer to the dialog.
DeleteResource(resourceId, confirmed) ==
    /\ IF ~\E i \in 1..Len(appState.resources) :
               FieldIs(appState.resources[i], "id", resourceId)
       THEN /\ ui' = [ui EXCEPT !.notification = "Resource allocation not found"]
            /\ UNCHANGED <<resources, res, appState>>
       ELSE IF ~confirmed
       THEN UNCHANGED <<resources, res, appState, ui>>
       ELSE LET out == DeleteResourcesIdResult(resourceId)
            IN  /\ resources' = out.resources
                /\ IF ResponseOk(out.res)
                   THEN /\ res' = Response("GET /resources", 200, NoId, out.resources)
                        /\ appState' = [appState EXCEPT !.resources = out.resources]
                        /\ ui' = [ui EXCEPT
                                    !.notification =
                                        "Resource allocation deleted successfully",
                                    !.utilization = UtilizationColumn(out.resources)]
                   ELSE /\ res' = out.res
                        /\ ui' = [ui EXCEPT !.notification =
                                              "Failed to delete resource allocation"]
                        /\ UNCHANGED appState
    /\ UNCHANGED <<users, projects, tasks, unreadable, now, deletedIds, form, inflight>>

(* ------------------------ client: projects page ----------------------- *)

\* A percentage rounded in exact arithmetic, a tie going up.
calculatePercentageExactly(part, total) ==
    IF total = 0 THEN 0 ELSE (200 * part + total) \div (2 * total)

\* calculatePercentage(part, total) of utils.js
calculatePercentage(part, total) ==
    IF total = 0 THEN 0 ELSE RoundedPercent(part, total)

\* calculateProjectProgress(projectId) on the cached tasks ts.
calculateProjectProgress(ts, projectId) ==
    LET projectTasks == SelectSeq(ts, LAMBDA t : FieldIs(t, "projectId", projectId))
    IN  IF Len(projectTasks) = 0 THEN 0
        ELSE calculatePercentage(CountStatus(projectTasks, "completed"),
                                 Len(projectTasks))

\* renderProjects with no filter set: the progress shown on each project card.
RenderProjects ==
    /\ ui' = Spread(ui, [projectProgress |->
                            [i \in 1..Len(appState.projects) |->
                                calculateProjectProgress(appState.tasks,
                                    Field(appState.projects[i], "id"))]])
    /\ UNCHANGED <<users, projects, tasks, resources, unreadable, now, res,
                   deletedIds, appState, form, inflight>>

\* The server's part of POST /api/projects, the clock standing still: the
\* response and the stored file.
PostProjectsResult(body, r, wok) ==
    IF ReadFails("projects.json")
    THEN [res |-> Uncaught("POST /projects", NoId), projects |-> projects]
    ELSE LET newProject == NewProject(body, now, r, now, now)
         IN  IF wok
             THEN [res |-> Response("POST /projects", 201, newProject.id, newProject),
                   projects |-> Append(projects, newProject)]
             ELSE [res |-> Response("POST /projects", 500, NoId,
                                    [error |-> "Failed to create project"]),
                   projects |-> projects]

\* The server's part of PUT /api/projects/:id.
PutProjectsIdResult(id, body, wok) ==
    IF ReadFails("projects.json")
    THEN [res |-> Uncaught("PUT /projects/:id", id), projects |-> projects]
    ELSE LET index == FindIndex(projects, id)
         IN  IF index = 0
             THEN [res |-> Response("PUT /projects/:id", 404, id,
                                    [error |-> "Project not found"]),
                   projects |-> projects]
             ELSE IF wok
             THEN LET updated == UpdatedProject(projects[index], body, id, now)
                  IN  [res |-> Response("PUT /projects/:id", 200, id, updated),
                       projects |-> [projects EXCEPT ![index] = updated]]
             ELSE [res |-> Response("PUT /projects/:id", 500, id,
                                    [error |-> "Failed to update project"]),
                   projects |-> projects]

\* openCreateProjectModal: the empty form with its defaults; today is the day
\* the form shows as start date, the end date three months later.
OpenCreateProjectModal(today) ==
    /\ form' = [open |-> TRUE, projectId |-> NoId, name |-> "", description |-> "",
                status |-> "planning", priority |-> "medium", startDate |-> today,
                endDate |-> today + 90, budget |-> 0, budgetSpent |-> 0,
                department |-> ""]
    /\ UNCHANGED <<users, projects, tasks, resources, unreadable, now, res,
                   deletedIds, appState, ui, inflight>>

\* project.budgetSpent || 0
BudgetSpentOrZero(project) ==
    IF Has(project, "budgetSpent") THEN project.budgetSpent ELSE 0

\* editProject(projectId): the form filled from the cached project.
EditProject(projectId) ==
    /\ LET index == FindIndex(appState.projects, projectId)
           project == appState.projects[index]
       IN  IF index = 0
           THEN /\ ui' = [ui EXCEPT !.notification = "Project not found"]
                /\ UNCHANGED form
           ELSE /\ form' = [open |-> TRUE, projectId |-> project.id,
                            name |-> Field(project, "name"),
                            description |-> Field(project, "description"),
                            status |-> Field(project, "status"),
                            priority |-> Field(project, "priority"),
                            startDate |-> Field(project, "startDate"),
                            endDate |-> Field(project, "endDate"),
                            budget |-> Field(project, "budget"),
                            budgetSpent |-> BudgetSpentOrZero(project),
                            department |-> Field(project, "department")]
                /\ UNCHANGED ui
    /\ UNCHANGED <<users, projects, tasks, resources, unreadable, now, res,
                   deletedIds, appState, inflight>>

\* The user types a budget, the amount spent and an end date into the open
\* project form.
TypeProject(budget, budgetSpent, endDate) ==
    /\ form.open
    /\ Has(form, "budgetSpent")
    /\ form' = [form EXCEPT !.budget = budget, !.budgetSpent = budgetSpent,
                            !.endDate = endDate]
    /\ UNCHANGED <<users, projects, tasks, resources, unreadable, now, res,
                   deletedIds, appState, ui, inflight>>

\* A form that keeps the stored lists and manager of the project it edits.
ProjectDataKeepingLists(f) ==
    [name |-> f.name, description |-> f.description, status |-> f.status,
     priority |-> f.priority, startDate |-> f.startDate, endDate |-> f.endDate,
     budget |-> f.budget, budgetSpent |-> f.budgetSpent,
     department |-> f.department]

\* projectData of handleProjectSubmit, from the values of the form f.
ProjectData(f) ==
    [name |-> f.name, description |-> f.description, status |-> f.status,
     priority |-> f.priority, startDate |-> f.startDate, endDate |-> f.endDate,
     budget |-> f.budget, budgetSpent |-> f.budgetSpent,
     department |-> f.department, projectManager |-> appState.currentUser.id,
     teamMembers |-> <<>>, milestones |-> <<>>, risks |-> <<>>]

\* handleProjectSubmit on the open project form of a logged-in user; r and wok
\* are the server's random number and write outcome.  The reload after a
\* successful save reads the file the save has just written.
HandleProjectSubmit(r, wok) ==
    /\ form.open
    /\ Has(form, "budgetSpent")
    /\ appState.currentUser # Null
    /\ form.projectId = NoId => Len(projects) < MaxLen
    /\ LET projectData == ProjectData(form)
       IN  IF ~isValidDateRange(projectData.startDate, projectData.endDate)
           THEN /\ ui' = [ui EXCEPT
                            !.notification = "End date must be after start date"]
                /\ UNCHANGED <<projects, res, appState, form>>
           ELSE IF projectData.budgetSpent > projectData.budget
           THEN /\ ui' = [ui EXCEPT
                            !.notification =
                                "Budget spent cannot exceed total budget"]
                /\ UNCHANGED <<projects, res, appState, form>>
           ELSE LET out == IF form.projectId # NoId
                           THEN PutProjectsIdResult(form.projectId, projectData, wok)
                           ELSE PostProjectsResult(projectData, r, wok)
                    cache == [appState EXCEPT !.projects = out.projects]
                IN  IF ResponseOk(out.res)
                    THEN /\ ui' = Spread([ui EXCEPT
                                            !.notification =
                                                IF form.projectId # NoId
                                                THEN "Project updated successfully"
                                                ELSE "Project created successfully"],
                                         [projectProgress |->
                                            [i \in 1..Len(cache.projects) |->
                                                calculateProjectProgress(cache.tasks,
                                                    Field(cache.projects[i], "id"))]])
                         /\ projects' = out.projects
                         /\ res' = Response("GET /projects", 200, NoId, out.projects)
                         /\ appState' = cache
                         /\ form' = ClosedForm
                    ELSE /\ ui' = [ui EXCEPT !.notification = "Failed to save project"]
                         /\ projects' = out.projects
                         /\ res' = out.res
                         /\ UNCHANGED <<appState, form>>
    /\ UNCHANGED <<users, tasks, resources, unreadable, now, deletedIds, inflight>>

(* -------------------------- client: tasks page ------------------------- *)

\* getProjectName(projectId) on the cached projects ps.
getProjectName(ps, projectId) ==
    LET index == FindIndex(ps, projectId)
    IN  IF index # 0 THEN Field(ps[index], "name") ELSE "Unknown Project"

\* assignee ? assignee.fullName : 'Unassigned' of a task card.
AssigneeName(us, userId) ==
    LET index == FindIndex(us, userId)
    IN  IF index # 0 THEN Field(us[index], "fullName") ELSE "Unassigned"

\* The cards renderTaskColumn builds for one status, from the cached data.
TaskCards(cache, status) ==
    LET shown == SelectSeq(cache.tasks, LAMBDA t : FieldIs(t, "status", status))
    IN  [i \in 1..Len(shown) |->
            [id |-> Field(shown[i], "id"),
             project |-> getProjectName(cache.projects, Field(shown[i], "projectId")),
             assignee |-> AssigneeName(cache.users, Field(shown[i], "assignedTo"))]]

\* The three status columns renderTasks builds (no filter set).
TaskColumns(cache) ==
    [status \in {"pending", "in-progress", "completed"} |-> TaskCards(cache, status)]

\* loadAllData of the tasks page: loadProjects, loadUsers and loadTasks, each
\* keeping its part of the cache when its request fails.
LoadAllData ==
    /\ appState' = [appState EXCEPT
                       !.projects = IF ReadFails("projects.json") THEN @ ELSE projects,
                       !.users = IF ReadFails("users.json") THEN @ ELSE SafeUsers(users),
                       !.tasks = IF ReadFails("tasks.json") THEN @ ELSE tasks]
    /\ ui' = IF ReadFails("tasks.json")
             THEN [ui EXCEPT !.notification = "Failed to load tasks"]
             ELSE ui
    /\ res' = IF ReadFails("tasks.json")
              THEN Response("GET /tasks", 500, NoId,
                            [error |-> "Unable to read task data"])
              ELSE Response("GET /tasks", 200, NoId, tasks)
    /\ UNCHANGED <<users, projects, tasks, resources, unreadable, now, deletedIds,
                   form, inflight>>

\* renderTasks with no filter set: the three status columns.
RenderTasks ==
    /\ ui' = Spread(ui, [taskCards |-> TaskColumns(appState)])
    /\ UNCHANGED <<users, projects, tasks, resources, unreadable, now, res,
                   deletedIds, appState, form, inflight>>

\* openCreateTaskModal: the empty form with its defaults; today is the day
\* the form shows as start date.
OpenCreateTaskModal(today) ==
    /\ form' = [open |-> TRUE, taskId |-> NoId, projectId |-> Null, title |-> "",
                status |-> "pending", priority |-> "medium", startDate |-> today,
                dueDate |-> today + 7, assignedTo |-> Null]
    /\ UNCHANGED <<users, projects, tasks, resources, unreadable, now, res,
                   deletedIds, appState, ui, inflight>>

\* editTask(taskId): the form filled from the cached task.
EditTask(taskId) ==
    /\ LET index == FindIndex(appState.tasks, taskId)
           task == appState.tasks[index]
       IN  IF index = 0
           THEN /\ ui' = [ui EXCEPT !.notification = "Task not found"]
                /\ UNCHANGED form
           ELSE /\ form' = [open |-> TRUE, taskId |-> task.id,
                            projectId |-> Field(task, "projectId"),
                            title |-> Field(task, "title"),
                            status |-> Field(task, "status"),
                            priority |-> Field(task, "priority"),
                            startDate |-> Field(task, "startDate"),
                            dueDate |-> Field(task, "dueDate"),
                            assignedTo |-> Field(task, "assignedTo")]
                /\ UNCHANGED ui
    /\ UNCHANGED <<users, projects, tasks, resources, unreadable, now, res,
                   deletedIds, appState, inflight>>

\* The user picks a status and a due date in the open task form.
TypeTask(status, dueDate) ==
    /\ form.open
    /\ Has(form, "taskId")
    /\ form' = [form EXCEPT !.status = status, !.dueDate = dueDate]
    /\ UNCHANGED <<users, projects, tasks, resources, unreadable, now, res,
                   deletedIds, appState, ui, inflight>>

\* An edit that never clears the completion date.
CompletedDateOnEditNeverCleared(status, existingTask, t) ==
    IF status = "completed" /\ ~FieldIs(existingTask, "status", "completed")
    THEN [completedDate |-> ToISOString(t)]
    ELSE IF Has(existingTask, "completedDate")
         THEN [completedDate |-> existingTask.completedDate]
         ELSE <<>>

\* taskData.completedDate of an edit, as JSON.stringify sends it: an undefined
\* value (existingTask has no completedDate) leaves the key out of the body.
CompletedDateOnEdit(status, existingTask, t) ==
    IF status = "completed" /\ ~FieldIs(existingTask, "status", "completed")
    THEN [completedDate |-> ToISOString(t)]
    ELSE IF status # "completed"
    THEN [completedDate |-> Null]
    ELSE IF Has(existingTask, "completedDate")
         THEN [completedDate |-> existingTask.completedDate]
         ELSE <<>>

\* taskData of handleTaskSubmit before the edit branch, from the form f at
\* client time t.
TaskData(f, t) ==
    [projectId |-> f.projectId, title |-> f.title, status |-> f.status,
     priority |-> f.priority, startDate |-> f.startDate, dueDate |-> f.dueDate,
     assignedTo |-> f.assignedTo, createdBy |-> appState.currentUser.id,
     tags |-> <<>>, dependencies |-> <<>>,
     completedDate |-> IF f.status = "completed" /\ f.taskId = NoId
                       THEN ToISOString(t) ELSE Null]

\* handleTaskSubmit on the open task form; r and wok are the server's random
\* number and write outcome.  The reload after a successful save reads the
\* file the save has just written.
HandleTaskSubmit(r, wok) ==
    /\ form.open
    /\ Has(form, "taskId")
    /\ form.taskId = NoId => Len(tasks) < MaxLen
    /\ LET taskData == TaskData(form, now)
           cached == FindIndex(appState.tasks, form.taskId)
       IN  IF ~isValidDateRange(taskData.startDate, taskData.dueDate)
           THEN /\ ui' = [ui EXCEPT !.notification = "Due date must be after start date"]
                /\ UNCHANGED <<tasks, res, appState, form>>
           ELSE IF form.taskId # NoId /\ cached = 0
           THEN /\ ui' = [ui EXCEPT !.notification = "Failed to save task"]
                /\ UNCHANGED <<tasks, res, appState, form>>
           ELSE LET body == IF form.taskId # NoId
                            THEN Spread(Without(taskData, "completedDate"),
                                        CompletedDateOnEdit(taskData.status,
                                            appState.tasks[cached], now))
                            ELSE taskData
                    out == IF form.taskId # NoId
                           THEN PutTasksIdResult(form.taskId, body, wok)
                           ELSE PostTasksResult(body, r, wok)
                    cache == [appState EXCEPT !.tasks = out.tasks]
                IN  IF ResponseOk(out.res)
                    THEN /\ ui' = Spread([ui EXCEPT
                                            !.notification =
                                                IF form.taskId # NoId
                                                THEN "Task updated successfully"
                                                ELSE "Task created successfully"],
                                         [taskCards |-> TaskColumns(cache)])
                         /\ tasks' = out.tasks
                         /\ res' = Response("GET /tasks", 200, NoId, out.tasks)
                         /\ appState' = cache
                         /\ form' = ClosedForm
                    ELSE /\ ui' = [ui EXCEPT !.notification = "Failed to save task"]
                         /\ tasks' = out.tasks
                         /\ res' = out.res
                         /\ UNCHANGED <<appState, form>>
    /\ UNCHANGED <<users, projects, resources, unreadable, now, deletedIds, inflight>>

(* -------------------------- client: login page ------------------------- *)

\* fetchAPI on the server's response: the parsed body of an ok response;
\* otherwise it throws an Error whose message is the error field of the body,
\* 'API request failed' when the body has none, and the parser's complaint
\* when the body is not JSON.
FetchAPI(response) ==
    IF ResponseOk(response) THEN [ok |-> TRUE, data |-> response.body]
    ELSE IF Has(response.body, "error")
    THEN [ok |-> FALSE, message |-> response.body.error]
    ELSE IF Has(response.body, "html") \/ Has(response.body, "uncaught")
    THEN [ok |-> FALSE, message |-> "Unexpected token < in JSON"]
    ELSE [ok |-> FALSE, message |-> "API request failed"]

\* The login page as it is loaded: no error shown, the button enabled, and
\* nothing under currentUser in localStorage.
LoginPage == Spread(EmptyUi, [errorMessage |-> "", submitDisabled |-> FALSE])

LoggedOut == Spread(EmptyAppState, [localStorage |-> Null])

\* handleLogin with the trimmed username and the password of the form.  The
\* page only has the form while localStorage holds no user (checkAuth).
HandleLogin(username, password) ==
    /\ Has(appState, "localStorage")
    /\ appState.localStorage = Null
    /\ IF username = "" \/ password = ""
       THEN /\ ui' = [ui EXCEPT
                        !.errorMessage = "Please enter both username and password"]
            /\ UNCHANGED <<res, appState>>
       ELSE LET body == [username |-> username, password |-> password]
                response == IF ReadFails("users.json")
                            THEN Response("POST /login", 500, NoId,
                                          [error |-> "Unable to read user data"])
                            ELSE LoginResponse(users, body)
                fetched == FetchAPI(response)
            IN  /\ res' = response
                /\ IF fetched.ok
                   THEN IF fetched.data.success
                        THEN /\ appState' = [appState EXCEPT
                                               !.localStorage = fetched.data.user]
                             /\ ui' = [ui EXCEPT
                                         !.errorMessage = "",
                                         !.submitDisabled = TRUE,
                                         !.notification =
                                             "Login successful! Redirecting..."]
                        ELSE /\ ui' = [ui EXCEPT
                                         !.errorMessage = fetched.data.message,
                                         !.submitDisabled = FALSE]
                             /\ UNCHANGED appState
                   ELSE /\ ui' = [ui EXCEPT
                                    !.errorMessage =
                                        "An error occurred during login. Please try again.",
                                    !.submitDisabled = FALSE]
                        /\ UNCHANGED appState
    /\ UNCHANGED <<users, projects, tasks, resources, unreadable, now, deletedIds,
                   form, inflight>>

\* logout: the stored user is removed and the login page is shown again.
Logout ==
    /\ Has(appState, "localStorage")
    /\ appState.localStorage # Null
    /\ appState' = [appState EXCEPT !.localStorage = Null]
    /\ ui' = LoginPage
    /\ UNCHANGED <<users, projects, tasks, resources, unreadable, now, res,
                   deletedIds, form, inflight>>

(* -------------------------- inputs and specs --------------------------- *)

\* Identifiers a request names: a seed-style one and one generateId can yield.
SeedId == <<0, 0>>

ReqIds == {SeedId, <<1, 0>>}

\* Request bodies over id, createdAt and updatedAt.
IdentBodies ==
    { Spread(Spread(a, b), c) :
        a \in OptField("id", ReqIds),
        b \in OptField("createdAt", {ToISOString(0)}),
        c \in OptField("updatedAt", {ToISOString(0)}) }

\* Request bodies over budget and budgetSpent.
BudgetBodies ==
    { Spread(a, b) : a \in OptField("budget", {0, 10, 30}),
                     b \in OptField("budgetSpent", {5}) }

\* Request bodies over status and completedDate.
StatusBodies ==
    { Spread(a, b) :
        a \in OptField("status", {"pending", "in-progress", "completed"}),
        b \in OptField("completedDate", {Null, ToISOString(0)}) }

\* Project identifiers that tasks and reports name.
ProjectIds == {<<0, 1>>, <<0, 2>>}

\* Credentials a login request may carry.
Usernames == {"admin", "Admin", "pm"}

Passwords == {"admin123", "Admin123", "pm123"}

LoginBodies ==
    { Spread(a, b) : a \in OptField("username", Usernames),
                     b \in OptField("password", Passwords) }

\* Records of data/users.json.
UserRecords ==
    { [id |-> SeedId, username |-> "admin", password |-> "admin123", role |-> "admin"],
      [id |-> <<0, 1>>, username |-> "pm", password |-> "pm123",
       role |-> "project_manager"],
      [id |-> <<0, 2>>, username |-> "admin", password |-> "pm123",
       role |-> "team_member"],
      [id |-> <<0, 3>>, username |-> "Admin", password |-> "Admin123",
       role |-> "executive"] }

SeedProject ==
    [id |-> SeedId, createdAt |-> ToISOString(0), updatedAt |-> ToISOString(0)]

SeedTask ==
    [id |-> SeedId, projectId |-> <<0, 1>>, status |-> "pending",
     completedDate |-> Null, createdAt |-> ToISOString(0),
     updatedAt |-> ToISOString(0)]

SeedResource ==
    [id |-> SeedId, projectId |-> <<0, 1>>, userId |-> <<0, 1>>,
     userName |-> "Sarah Smith", role |-> "Frontend Developer",
     allocatedHours |-> 4, usedHours |-> 2, hourlyRate |-> 75,
     startDate |-> 1, endDate |-> 1, utilizationPercentage |-> 50,
     status |-> "active", createdAt |-> ToISOString(0)]

\* The state every specification starts from, up to the stored collections.
InitWith(us, ps, ts, rs) ==
    /\ users = us
    /\ projects = ps
    /\ tasks = ts
    /\ resources = rs
    /\ unreadable = {}
    /\ now = 1
    /\ res = Response("none", 0, NoId, <<>>)
    /\ deletedIds = {}
    /\ appState = EmptyAppState
    /\ ui = EmptyUi
    /\ form = ClosedForm
    /\ inflight = {}

(* Projects: identifiers and timestamps. *)

InitProjects == InitWith(<<>>, <<SeedProject>>, <<>>, <<>>)

NextProjects ==
    \/ Tick
    \/ BreakFile("projects.json")
    \/ RepairFile("projects.json")
    \/ GetProjects
    \/ \E id \in ReqIds : GetProjectsId(id)
    \/ \E body \in IdentBodies, r \in 0..(RndSize - 1), d1 \in 0..1, d2 \in 0..1,
          wok \in BOOLEAN : PostProjects(body, r, d1, d2, wok)
    \/ \E id \in ReqIds, body \in IdentBodies, wok \in BOOLEAN :
          PutProjectsId(id, body, wok)
    \/ \E id \in ReqIds, wok \in BOOLEAN : DeleteProjectsId(id, wok)

SpecProjects == InitProjects /\ [][NextProjects]_vars

(* Projects: delete, then read by identifier. *)

\* Request bodies of a create that may name an identifier of their own.
IdBodies == OptField("id", ReqIds)

InitDeletes == InitWith(<<>>, <<SeedProject>>, <<>>, <<>>)

NextDeletes ==
    \/ BreakFile("projects.json")
    \/ RepairFile("projects.json")
    \/ \E id \in ReqIds : GetProjectsId(id)
    \/ \E body \in IdBodies, r \in 0..(RndSize - 1), wok \in BOOLEAN :
          PostProjects(body, r, 0, 0, wok)
    \/ \E id \in ReqIds, wok \in BOOLEAN : DeleteProjectsId(id, wok)

SpecDeletes == InitDeletes /\ [][NextDeletes]_vars

(* Updates of the three collections: what a PUT keeps. *)

\* Request bodies of an update, over id and createdAt.
StampBodies ==
    { Spread(a, b) : a \in OptField("id", ReqIds),
                     b \in OptField("createdAt", {ToISOString(1)}) }

InitUpdates == InitWith(<<>>, <<SeedProject>>, <<SeedTask>>, <<SeedResource>>)

NextUpdates ==
    \/ Tick
    \/ \E id \in ReqIds, body \in StampBodies, wok \in BOOLEAN :
          PutProjectsId(id, body, wok)
    \/ \E id \in ReqIds, body \in StampBodies, wok \in BOOLEAN :
          PutTasksId(id, body, wok)
    \/ \E id \in ReqIds, body \in StampBodies, wok \in BOOLEAN :
          PutResourcesId(id, body, wok)

SpecUpdates == InitUpdates /\ [][NextUpdates]_vars

(* Creates in the three collections: which fields the server assigns. *)

\* Request bodies of a create: an empty one and one that names the three
\* fields the server assigns.
CreateBodies == {<<>>, SeedProject}

InitCreates == InitWith(<<>>, <<SeedProject>>, <<SeedTask>>, <<SeedResource>>)

NextCreates ==
    \/ Tick
    \/ GetResources
    \/ \E body \in CreateBodies, wok \in BOOLEAN : PostProjects(body, 0, 0, 0, wok)
    \/ \E body \in CreateBodies, wok \in BOOLEAN : PostTasks(body, 0, 0, 0, wok)
    \/ \E body \in CreateBodies, wok \in BOOLEAN : PostResources(body, 0, 0, wok)

SpecCreates == InitCreates /\ [][NextCreates]_vars

(* Projects and the dashboard: budgets. *)

InitDashboard ==
    InitWith(<<>>, <<Spread(SeedProject, [budget |-> 10, budgetSpent |-> 5])>>,
             <<SeedTask>>, <<SeedResource>>)

NextDashboard ==
    \/ BreakFile("projects.json")
    \/ RepairFile("projects.json")
    \/ GetReportsDashboard
    \/ \E body \in BudgetBodies, wok \in BOOLEAN : PostProjects(body, 0, 0, 0, wok)
    \/ \E id \in ReqIds, body \in BudgetBodies, wok \in BOOLEAN :
          PutProjectsId(id, body, wok)
    \/ \E id \in ReqIds, wok \in BOOLEAN : DeleteProjectsId(id, wok)

SpecDashboard == InitDashboard /\ [][NextDashboard]_vars

(* Tasks: status and completedDate. *)

InitTasks == InitWith(<<>>, <<>>, <<SeedTask>>, <<>>)

NextTasks ==
    \/ Tick
    \/ BreakFile("tasks.json")
    \/ RepairFile("tasks.json")
    \/ \E projectId \in ProjectIds \cup {NoProject} : GetTasks(projectId)
    \/ \E body \in StatusBodies, wok \in BOOLEAN : PostTasks(body, 0, 0, 0, wok)
    \/ \E id \in ReqIds, body \in StatusBodies, wok \in BOOLEAN :
          PutTasksId(id, body, wok)
    \/ \E id \in ReqIds, wok \in BOOLEAN : DeleteTasksId(id, wok)

SpecTasks == InitTasks /\ [][NextTasks]_vars

(* Project progress: collections of up to MaxTasks tasks. *)

\* n tasks of project p, the first c of them completed, the others alternately
\* pending and in-progress, followed by one completed task of project q.
TasksOf(p, q, c, n) ==
    [i \in 1..(n + 1) |->
        IF i <= n
        THEN [id |-> <<0, i>>, projectId |-> p,
              status |-> IF i <= c THEN "completed"
                         ELSE IF i % 2 = 0 THEN "pending" ELSE "in-progress"]
        ELSE [id |-> <<0, i>>, projectId |-> q, status |-> "completed"]]

InitProgress ==
    \E n \in 0..MaxTasks : \E c \in 0..n :
        InitWith(<<>>, <<>>, TasksOf(<<0, 1>>, <<0, 2>>, c, n), <<>>)

NextProgress ==
    \/ BreakFile("tasks.json")
    \/ RepairFile("tasks.json")
    \/ \E projectId \in ProjectIds \cup {<<0, 3>>} :
          GetReportsProjectProgress(projectId)

SpecProgress == InitProgress /\ [][NextProgress]_vars

(* Resource utilization in the client. *)

\* The resource form as the user has filled it in.
TypedForm(resourceId, usedHours, allocatedHours, endDate) ==
    [open |-> TRUE, resourceId |-> resourceId, projectId |-> <<0, 1>>,
     userId |-> <<0, 1>>, role |-> "Frontend Developer",
     allocatedHours |-> allocatedHours, usedHours |-> usedHours,
     hourlyRate |-> 75, startDate |-> 1, endDate |-> endDate, status |-> "active"]

\* The page is loaded and the user has typed hours into the form, either the
\* form of a new allocation or the edit form of the stored one.
InitUtilization ==
    \E resourceId \in {NoId, SeedId}, usedHours \in 0..MaxHours,
       allocatedHours \in 0..MaxHours, endDate \in 0..1 :
        /\ users = <<>>
        /\ projects = <<>>
        /\ tasks = <<>>
        /\ resources = <<SeedResource>>
        /\ unreadable = {}
        /\ now = 1
        /\ res = Response("none", 0, NoId, <<>>)
        /\ deletedIds = {}
        /\ appState = [EmptyAppState EXCEPT !.resources = <<SeedResource>>]
        /\ ui = EmptyUi
        /\ form = TypedForm(resourceId, usedHours, allocatedHours, endDate)
        /\ inflight = {}

NextUtilization ==
    \/ RenderResources
    \/ \E confirmed \in BOOLEAN, wok \in BOOLEAN :
          HandleResourceSubmit(confirmed, 0, 0, wok)

SpecUtilization == InitUtilization /\ [][NextUtilization]_vars

(* Login. *)

InitLogin ==
    \E us \in {<<>>} \cup { <<u>> : u \in UserRecords }
              \cup { <<u, v>> : u \in UserRecords, v \in UserRecords } :
        InitWith(us, <<>>, <<>>, <<>>)

NextLogin ==
    \/ BreakFile("users.json")
    \/ RepairFile("users.json")
    \/ \E body \in LoginBodies : PostLogin(body)

SpecLogin == InitLogin /\ [][NextLogin]_vars

(* Deletes of projects and tasks. *)

InitRemoves == InitWith(<<>>, <<SeedProject>>, <<SeedTask>>, <<>>)

NextRemoves ==
    \/ \E body \in IdBodies, wok \in BOOLEAN : PostProjects(body, 0, 0, 0, wok)
    \/ \E body \in IdBodies, wok \in BOOLEAN : PostTasks(body, 0, 0, 0, wok)
    \/ \E id \in ReqIds, wok \in BOOLEAN : DeleteProjectsId(id, wok)
    \/ \E id \in ReqIds, wok \in BOOLEAN : DeleteTasksId(id, wok)

SpecRemoves == InitRemoves /\ [][NextRemoves]_vars

(* Updates that carry an updatedAt of their own. *)

\* Request bodies over updatedAt (none, one in the past, one in the future) and
\* status.
UpdatedAtBodies ==
    { Spread(a, b) :
        a \in OptField("updatedAt", {ToISOString(0), ToISOString(MaxClock + 1)}),
        b \in OptField("status", {"completed"}) }

InitStamps == InitWith(<<>>, <<SeedProject>>, <<SeedTask>>, <<>>)

NextStamps ==
    \/ Tick
    \/ \E id \in ReqIds, body \in UpdatedAtBodies, wok \in BOOLEAN :
          PutProjectsId(id, body, wok)
    \/ \E id \in ReqIds, body \in UpdatedAtBodies, wok \in BOOLEAN :
          PutTasksId(id, body, wok)

SpecStamps == InitStamps /\ [][NextStamps]_vars

(* Write requests on the projects file that are in flight together. *)

\* Two creates and two updates of the stored project, no two of which set the
\* same field.
RaceRequests ==
    { [kind |-> "POST", id |-> NoId, body |-> [name |-> "A"]],
      [kind |-> "POST", id |-> NoId, body |-> [name |-> "B"]],
      [kind |-> "PUT", id |-> SeedId, body |-> [budget |-> 10]],
      [kind |-> "PUT", id |-> SeedId, body |-> [status |-> "active"]] }

InitRace == InitWith(<<>>, <<SeedProject>>, <<>>, <<>>)

NextRace ==
    \/ \E req \in RaceRequests : Receive(req)
    \/ \E entry \in inflight, r \in 0..(RndSize - 1), wok \in BOOLEAN :
          RunHandler(entry, r, wok)

SpecRace == InitRace /\ [][NextRace]_vars

(* The task list and its projectId filter. *)

\* The tasks files of n records, each of one of the projects or of none.
TaskFiles(n) ==
    { [i \in 1..n |-> Spread([id |-> <<0, i>>, status |-> "pending"], choice[i])] :
        choice \in [1..n -> OptField("projectId", ProjectIds)] }

InitTaskList ==
    \E n \in 0..(MaxLen + 1) : \E ts \in TaskFiles(n) :
        InitWith(<<>>, <<>>, ts, <<>>)

NextTaskList ==
    \/ BreakFile("tasks.json")
    \/ RepairFile("tasks.json")
    \/ \E projectId \in ProjectIds \cup {NoProject} : GetTasks(projectId)

SpecTaskList == InitTaskList /\ [][NextTaskList]_vars

(* Logins between the requests on projects. *)

\* One login that succeeds against the stored user and one that fails.
SessionLogins ==
    { [username |-> "admin", password |-> "admin123"],
      [username |-> "admin", password |-> "pm123"] }

InitSessions ==
    InitWith(<<[id |-> SeedId, username |-> "admin", password |-> "admin123",
                role |-> "admin"]>>,
             <<SeedProject>>, <<>>, <<>>)

NextSessions ==
    \/ \E body \in SessionLogins : PostLogin(body)
    \/ \E id \in ReqIds : GetProjectsId(id)
    \/ \E body \in IdBodies, wok \in BOOLEAN : PostProjects(body, 0, 0, 0, wok)
    \/ \E id \in ReqIds, body \in IdBodies, wok \in BOOLEAN :
          PutProjectsId(id, body, wok)
    \/ \E id \in ReqIds, wok \in BOOLEAN : DeleteProjectsId(id, wok)

SpecSessions == InitSessions /\ [][NextSessions]_vars

(* Resource writes sent straight to the API. *)

\* Bodies that name usedHours, utilizationPercentage, both or neither.
HoursBodies ==
    { Spread(a, b) : a \in OptField("usedHours", {1, 3}),
                     b \in OptField("utilizationPercentage", {25, 75}) }

\* Bodies of a new allocation of four hours.
AllocationBodies == { Spread([allocatedHours |-> 4], b) : b \in HoursBodies }

InitResources == InitWith(<<>>, <<>>, <<>>, <<SeedResource>>)

NextResources ==
    \/ \E body \in AllocationBodies, r \in 0..(RndSize - 1), wok \in BOOLEAN :
          PostResources(body, r, 0, wok)
    \/ \E id \in ReqIds, body \in HoursBodies, wok \in BOOLEAN :
          PutResourcesId(id, body, wok)
    \/ GetResources

SpecResources == InitResources /\ [][NextResources]_vars

(* Login attempts under one username. *)

\* The username the attempts are made under.
ProbedUsername == "admin"

NextLoginProbe ==
    \/ BreakFile("users.json")
    \/ RepairFile("users.json")
    \/ \E password \in Passwords :
          PostLogin([username |-> ProbedUsername, password |-> password])

SpecLoginProbe == InitLogin /\ [][NextLoginProbe]_vars

(* Login and the user list. *)

NextUsers ==
    \/ BreakFile("users.json")
    \/ RepairFile("users.json")
    \/ GetUsers
    \/ \E body \in LoginBodies : PostLogin(body)

SpecUsers == InitLogin /\ [][NextUsers]_vars

(* Updates whose bodies carry lists and nested objects. *)

\* A stored project with a list, a list of objects and a nested object.
NestedProject ==
    Spread(SeedProject,
           [name |-> "Website", teamMembers |-> <<"user002", "user003">>,
            milestones |-> <<[title |-> "Design", completed |-> TRUE]>>,
            contact |-> [name |-> "Ann", phone |-> "555"]])

\* Request bodies over a list, a nested object, id and updatedAt.
NestedBodies ==
    { Spread(Spread(a, b), Spread(c, d)) :
        a \in OptField("teamMembers", {<<"user004">>}),
        b \in OptField("contact", {[name |-> "Bob"]}),
        c \in OptField("id", {<<1, 0>>}),
        d \in OptField("updatedAt", {ToISOString(0)}) }

\* Request bodies over a list of tags.
TagBodies == OptField("tags", {<<>>, <<"api", "ui">>})

\* Two projects and two tasks, the first of each being the one the requests
\* update.
InitMerge ==
    InitWith(<<>>, <<NestedProject, [NestedProject EXCEPT !.id = <<2, 0>>]>>,
             <<Spread(SeedTask, [tags |-> <<"ui">>]),
               Spread(SeedTask, [id |-> <<2, 0>>])>>, <<>>)

NextMerge ==
    \/ \E id \in ReqIds, body \in NestedBodies, wok \in BOOLEAN :
          PutProjectsId(id, body, wok)
    \/ \E id \in ReqIds, body \in TagBodies, wok \in BOOLEAN :
          PutTasksId(id, body, wok)

SpecMerge == InitMerge /\ [][NextMerge]_vars

(* Every route, on collections that refer to one another. *)

\* One user, one project, and a task and an allocation of that project.
InitRoutes ==
    InitWith(<<[id |-> SeedId, username |-> "admin", password |-> "admin123",
                role |-> "admin"]>>,
             <<SeedProject>>,
             <<[SeedTask EXCEPT !.projectId = SeedId]>>,
             <<[SeedResource EXCEPT !.projectId = SeedId]>>)

NextRoutes ==
    \/ \E body \in SessionLogins : PostLogin(body)
    \/ GetUsers
    \/ GetProjects
    \/ \E id \in ReqIds : GetProjectsId(id)
    \/ \E wok \in BOOLEAN : PostProjects(<<>>, 0, 0, 0, wok)
    \/ \E id \in ReqIds, wok \in BOOLEAN : PutProjectsId(id, <<>>, wok)
    \/ \E id \in ReqIds, wok \in BOOLEAN : DeleteProjectsId(id, wok)
    \/ \E projectId \in {SeedId, NoProject} : GetTasks(projectId)
    \/ \E wok \in BOOLEAN : PostTasks([projectId |-> SeedId], 0, 0, 0, wok)
    \/ \E id \in ReqIds, wok \in BOOLEAN : PutTasksId(id, <<>>, wok)
    \/ \E id \in ReqIds, wok \in BOOLEAN : DeleteTasksId(id, wok)
    \/ GetResources
    \/ \E wok \in BOOLEAN : PostResources([projectId |-> SeedId], 0, 0, wok)
    \/ \E id \in ReqIds, wok \in BOOLEAN : PutResourcesId(id, <<>>, wok)
    \/ GetReportsDashboard
    \/ \E projectId \in ReqIds : GetReportsProjectProgress(projectId)

SpecRoutes == InitRoutes /\ [][NextRoutes]_vars

(* Tasks and allocations that refer to projects and users. *)

\* An identifier that no stored record has.
DanglingId == <<9, 9>>

\* Task bodies whose references all resolve, and whose references all dangle.
ReferenceBodies ==
    { [status |-> "pending", projectId |-> SeedId, assignedTo |-> SeedId,
       createdBy |-> SeedId],
      [status |-> "pending", projectId |-> DanglingId, assignedTo |-> DanglingId,
       createdBy |-> DanglingId] }

\* Bodies of an update that redirects a task's references.
RedirectBodies == {[projectId |-> DanglingId, assignedTo |-> DanglingId]}

\* One user and one project are stored; the resources page has its data and
\* the form of a new allocation is filled in for some project and user.
InitReferences ==
    \E projectId \in {DanglingId}, userId \in {SeedId, DanglingId} :
        /\ users = <<[id |-> SeedId, username |-> "admin", password |-> "admin123",
                      fullName |-> "Ann Admin"]>>
        /\ projects = <<Spread(SeedProject, [name |-> "Website"])>>
        /\ tasks = <<>>
        /\ resources = <<>>
        /\ unreadable = {}
        /\ now = 1
        /\ res = Response("none", 0, NoId, <<>>)
        /\ deletedIds = {}
        /\ appState = [EmptyAppState EXCEPT
                          !.users = <<[id |-> SeedId, username |-> "admin",
                                       fullName |-> "Ann Admin"]>>,
                          !.projects = <<Spread(SeedProject, [name |-> "Website"])>>]
        /\ ui = EmptyUi
        /\ form = [TypedForm(NoId, 1, 4, 1) EXCEPT !.projectId = projectId,
                                                    !.userId = userId]
        /\ inflight = {}

NextReferences ==
    \/ LoadAllData
    \/ RenderTasks
    \/ \E body \in ReferenceBodies, wok \in BOOLEAN : PostTasks(body, 0, 0, 0, wok)
    \/ \E id \in ReqIds, body \in RedirectBodies, wok \in BOOLEAN :
          PutTasksId(id, body, wok)
    \/ \E wok \in BOOLEAN : HandleResourceSubmit(TRUE, 0, 0, wok)

SpecReferences == InitReferences /\ [][NextReferences]_vars

(* Requests to delete, with a stored allocation on the resources page. *)

InitResourceDeletes ==
    /\ users = <<>>
    /\ projects = <<[SeedProject EXCEPT !.id = SeedResource.projectId]>>
    /\ tasks = <<SeedTask>>
    /\ resources = <<SeedResource>>
    /\ unreadable = {}
    /\ now = 1
    /\ res = Response("none", 0, NoId, <<>>)
    /\ deletedIds = {}
    /\ appState = [EmptyAppState EXCEPT !.resources = <<SeedResource>>]
    /\ ui = EmptyUi
    /\ form = ClosedForm
    /\ inflight = {}

NextResourceDeletes ==
    \/ \E wok \in BOOLEAN : PostResources(<<>>, 0, 0, wok)
    \/ \E id \in ReqIds, body \in OptField("usedHours", {3}), wok \in BOOLEAN :
          PutResourcesId(id, body, wok)
    \/ \E id \in ReqIds : DeleteResourcesId(id)
    \/ \E id \in ReqIds, confirmed \in BOOLEAN : DeleteResource(id, confirmed)
    \/ \E id \in {SeedResource.projectId}, wok \in BOOLEAN : DeleteProjectsId(id, wok)
    \/ \E id \in ReqIds, wok \in BOOLEAN : DeleteTasksId(id, wok)

SpecResourceDeletes == InitResourceDeletes /\ [][NextResourceDeletes]_vars

(* Project progress on the projects page and in the report. *)

\* The projects whose progress is asked for: two with tasks, one without.
ProgressProjects ==
    <<[id |-> <<0, 1>>, name |-> "Website"], [id |-> <<0, 2>>, name |-> "App"],
      [id |-> <<0, 3>>, name |-> "Audit"]>>

\* The projects page has loaded the projects and the tasks the server stores.
InitProgressPages ==
    \E n \in 0..MaxTasks : \E c \in 0..n :
        /\ users = <<>>
        /\ projects = ProgressProjects
        /\ tasks = TasksOf(<<0, 1>>, <<0, 2>>, c, n)
        /\ resources = <<>>
        /\ unreadable = {}
        /\ now = 1
        /\ res = Response("none", 0, NoId, <<>>)
        /\ deletedIds = {}
        /\ appState = [EmptyAppState EXCEPT
                          !.projects = ProgressProjects,
                          !.tasks = TasksOf(<<0, 1>>, <<0, 2>>, c, n)]
        /\ ui = EmptyUi
        /\ form = ClosedForm
        /\ inflight = {}

NextProgressPages ==
    \/ RenderProjects
    \/ \E i \in DOMAIN ProgressProjects :
          GetReportsProjectProgress(ProgressProjects[i].id)

SpecProgressPages == InitProgressPages /\ [][NextProgressPages]_vars

(* Tasks created and edited through the task form. *)

\* The task the page starts with: pending, with the dates the form needs.
FormTask ==
    Spread(SeedTask, [title |-> "Navigation", priority |-> "medium",
                      startDate |-> 1, dueDate |-> 1, assignedTo |-> SeedId,
                      createdBy |-> SeedId, tags |-> <<>>, dependencies |-> <<>>])

\* The same task, completed before the page was loaded.
CompletedFormTask ==
    [FormTask EXCEPT !.status = "completed", !.completedDate = ToISOString(0)]

\* The tasks page has loaded its data and a user is logged in.
InitTaskForm ==
    /\ users = <<>>
    /\ projects = <<>>
    /\ tasks \in {<<FormTask>>, <<CompletedFormTask>>}
    /\ resources = <<>>
    /\ unreadable = {}
    /\ now = 1
    /\ res = Response("none", 0, NoId, <<>>)
    /\ deletedIds = {}
    /\ appState = [EmptyAppState EXCEPT !.tasks = tasks,
                                        !.currentUser = [id |-> SeedId]]
    /\ ui = EmptyUi
    /\ form = ClosedForm
    /\ inflight = {}

NextTaskForm ==
    \/ OpenCreateTaskModal(1)
    \/ \E taskId \in ReqIds : EditTask(taskId)
    \/ \E status \in {"pending", "in-progress", "completed"}, dueDate \in 0..1 :
          TypeTask(status, dueDate)
    \/ \E wok \in BOOLEAN : HandleTaskSubmit(0, wok)

SpecTaskForm == InitTaskForm /\ [][NextTaskForm]_vars

(* The login page. *)

\* What the user may have typed into the two fields.
TypedUsernames == {"", "admin", "pm"}

TypedPasswords == {"", "admin123", "pm123"}

InitLoginPage ==
    \E us \in {<<>>} \cup { <<u>> : u \in UserRecords }
              \cup { <<u, v>> : u \in UserRecords, v \in UserRecords } :
        /\ users = us
        /\ projects = <<>>
        /\ tasks = <<>>
        /\ resources = <<>>
        /\ unreadable = {}
        /\ now = 1
        /\ res = Response("none", 0, NoId, <<>>)
        /\ deletedIds = {}
        /\ appState = LoggedOut
        /\ ui = LoginPage
        /\ form = ClosedForm
        /\ inflight = {}

NextLoginPage ==
    \/ BreakFile("users.json")
    \/ RepairFile("users.json")
    \/ \E username \in TypedUsernames, password \in TypedPasswords :
          HandleLogin(username, password)
    \/ Logout

SpecLoginPage == InitLoginPage /\ [][NextLoginPage]_vars

(* Budgets and hours above their caps. *)

\* The logged-in user of the pages.
PageUser ==
    [id |-> <<0, 1>>, username |-> "pm", fullName |-> "Sarah Smith",
     role |-> "project_manager"]

\* A stored project with every field of the project form, its lists filled.
FormProject ==
    Spread(SeedProject,
           [name |-> "Website", description |-> "Redesign", status |-> "active",
            priority |-> "high", startDate |-> 1, endDate |-> 1, budget |-> 2,
            budgetSpent |-> 1, department |-> "IT", projectManager |-> SeedId,
            teamMembers |-> <<SeedId, <<0, 1>>>>,
            milestones |-> <<[title |-> "Design", completed |-> TRUE]>>,
            risks |-> <<[description |-> "Delay"]>>])

\* The project form as the user has filled it in.
TypedProjectForm(projectId, budget, budgetSpent) ==
    [open |-> TRUE, projectId |-> projectId, name |-> "Website",
     description |-> "Redesign", status |-> "active", priority |-> "high",
     startDate |-> 1, endDate |-> 1, budget |-> budget,
     budgetSpent |-> budgetSpent, department |-> "IT"]

\* The cap the user types or a request names, and the amounts set against
\* it: one below and one above.
Cap == 2

Amounts == {Cap - 1, Cap + 1}

\* A project body and an allocation body above their caps.
SpentBodies == { [budget |-> Cap, budgetSpent |-> Cap + 1] }

UsedHoursBodies == { [allocatedHours |-> Cap, usedHours |-> Cap + 1] }

\* Either page is loaded and shows a filled-in form: a new record or the edit
\* form of the stored one.
InitCaps ==
    \E id \in {NoId, SeedId}, used \in Amounts :
        /\ users = <<>>
        /\ projects = <<FormProject>>
        /\ tasks = <<>>
        /\ resources = <<SeedResource>>
        /\ unreadable = {}
        /\ now = 1
        /\ res = Response("none", 0, NoId, <<>>)
        /\ deletedIds = {}
        /\ appState = [EmptyAppState EXCEPT !.currentUser = PageUser,
                                            !.projects = <<FormProject>>,
                                            !.resources = <<SeedResource>>]
        /\ ui = EmptyUi
        /\ form \in {TypedProjectForm(id, Cap, used), TypedForm(id, used, Cap, 1)}
        /\ inflight = {}

NextCaps ==
    \/ \E wok \in BOOLEAN : HandleProjectSubmit(0, wok)
    \/ \E confirmed \in BOOLEAN, wok \in BOOLEAN :
          HandleResourceSubmit(confirmed, 0, 0, wok)
    \/ \E body \in SpentBodies, wok \in BOOLEAN : PostProjects(body, 0, 0, 0, wok)
    \/ \E id \in ReqIds, body \in SpentBodies, wok \in BOOLEAN :
          PutProjectsId(id, body, wok)
    \/ \E body \in UsedHoursBodies, wok \in BOOLEAN : PostResources(body, 0, 0, wok)
    \/ \E id \in ReqIds, body \in UsedHoursBodies, wok \in BOOLEAN :
          PutResourcesId(id, body, wok)

SpecCaps == InitCaps /\ [][NextCaps]_vars

(* The project form. *)

\* The same project under another manager and with a single member.
OtherFormProject ==
    [FormProject EXCEPT !.projectManager = <<0, 2>>, !.teamMembers = <<<<0, 2>>>>]

\* The projects page is loaded by PageUser; one project is stored, its team,
\* milestones and risks filled in.
InitProjectForm ==
    \E project \in {FormProject, OtherFormProject} :
        /\ users = <<>>
        /\ projects = <<project>>
        /\ tasks = <<>>
        /\ resources = <<>>
        /\ unreadable = {}
        /\ now = 1
        /\ res = Response("none", 0, NoId, <<>>)
        /\ deletedIds = {}
        /\ appState = [EmptyAppState EXCEPT !.currentUser = PageUser,
                                            !.projects = <<project>>]
        /\ ui = EmptyUi
        /\ form = ClosedForm
        /\ inflight = {}

NextProjectForm ==
    \/ BreakFile("projects.json")
    \/ RepairFile("projects.json")
    \/ OpenCreateProjectModal(1)
    \/ \E projectId \in ReqIds : EditProject(projectId)
    \/ \E budgetSpent \in Amounts, endDate \in 0..1 :
          TypeProject(Cap, budgetSpent, endDate)
    \/ \E wok \in BOOLEAN : HandleProjectSubmit(0, wok)

SpecProjectForm == InitProjectForm /\ [][NextProjectForm]_vars

(* Reports over records of any status. *)

\* Status values a request may carry: the ones the client offers and one that
\* no page knows.
AnyStatus == {"pending", "in-progress", "completed", "active", "archived"}

\* Task bodies over projectId and status.
ReportTaskBodies ==
    { Spread([projectId |-> p], s) :
        p \in ProjectIds, s \in OptField("status", AnyStatus) }

\* Project bodies naming at most a status.
ReportProjectBodies == OptField("status", AnyStatus)

InitReports == InitWith(<<>>, <<SeedProject>>, <<>>, <<SeedResource>>)

NextReports ==
    \/ \E body \in ReportTaskBodies : PostTasks(body, 0, 0, 0, TRUE)
    \/ \E id \in ReqIds, body \in ReportTaskBodies : PutTasksId(id, body, TRUE)
    \/ \E id \in ReqIds, body \in ReportProjectBodies : PutProjectsId(id, body, TRUE)
    \/ GetReportsDashboard
    \/ \E projectId \in ProjectIds : GetReportsProjectProgress(projectId)

SpecReports == InitReports /\ [][NextReports]_vars

(* ------------------------------- claims -------------------------------- *)

\* The stored record that PUT on identifier id works on.
Target(arr, id) == arr[FindIndex(arr, id)]

Found(arr, id) == \E i \in 1..Len(arr) : FieldIs(arr[i], "id", id)

\* A successful PUT step of operation op from collection before to after keeps
\* the id and the createdAt of the record it updates, in the file and the reply.
PutKeepsIdentity(op, before, after) ==
    (res'.op = op /\ res'.status = 200) =>
        LET index == FindIndex(before, res'.id)
        IN  /\ after[index].id = before[index].id
            /\ SameField(after[index], before[index], "createdAt")
            /\ res'.body.id = before[index].id
            /\ SameField(res'.body, before[index], "createdAt")

\* C1: every successful PUT /projects/:id, PUT /tasks/:id and PUT /resources/:id
\* leaves the stored and the returned record with the id and the createdAt the
\* record had before the update, whatever the request body carries.
C1_PutKeepsIdAndCreatedAt ==
    [][/\ PutKeepsIdentity("PUT /projects/:id", projects, projects')
       /\ PutKeepsIdentity("PUT /tasks/:id", tasks, tasks')
       /\ PutKeepsIdentity("PUT /resources/:id", resources, resources')]_vars

PairwiseDistinctIds(arr) ==
    \A i, j \in 1..Len(arr) : i # j => ~SameField(arr[i], arr[j], "id")

\* A successful create step of operation op from collection before to after:
\* when the ids of before are pairwise distinct and the identifier generateId
\* returned is not among them, the new record's id is not among them either and
\* the ids of after are pairwise distinct.
CreateKeepsIdsDistinct(op, before, after) ==
    (/\ res'.op = op
     /\ res'.status = 201
     /\ Len(after) = Len(before) + 1
     /\ PairwiseDistinctIds(before)
     /\ ~Found(before, res'.assigned.id)) =>
        /\ ~Found(before, res'.body.id)
        /\ PairwiseDistinctIds(after)

\* C2: every create, whatever its request body, yields a record whose id was not
\* present in the collection before, so that collections whose ids are pairwise
\* distinct stay so (as long as generateId itself does not repeat an id).
C2_IdsPairwiseDistinct ==
    [][/\ CreateKeepsIdsDistinct("POST /projects", projects, projects')
       /\ CreateKeepsIdsDistinct("POST /tasks", tasks, tasks')
       /\ CreateKeepsIdsDistinct("POST /resources", resources, resources')]_vars

\* C3: the record a successful POST creates carries the server-generated id and
\* the server's timestamps, whatever the request body supplies for them.
C3_ServerAssignedFieldsWin ==
    /\ (res.op \in {"POST /projects", "POST /tasks"} /\ res.status = 201) =>
          /\ res.body.id = res.assigned.id
          /\ res.body.createdAt = res.assigned.createdAt
          /\ res.body.updatedAt = res.assigned.updatedAt
    /\ (res.op = "POST /resources" /\ res.status = 201) =>
          /\ res.body.id = res.assigned.id
          /\ res.body.createdAt = res.assigned.createdAt

\* C4: once DELETE /projects/:id has succeeded and no create has brought the
\* identifier back, a GET /projects/:id that finds the store readable answers 404.
C4_DeletedProjectNotFound ==
    (/\ res.op = "GET /projects/:id"
     /\ res.id \in deletedIds
     /\ ~Has(res.body, "uncaught")) => res.status = 404

C4_Witness ==
    /\ res.op = "GET /projects/:id"
    /\ res.id \in deletedIds
    /\ res.status = 404
    /\ Len(projects) = 1

\* The value of completedDate is a date: present and not null.
HasCompletedDate(task) == Has(task, "completedDate") /\ task.completedDate # Null

\* C5: PUT /tasks/:id with body {"status":"completed"} on a stored task that is
\* not completed leaves it with a non-null completedDate, and PUT /tasks/:id
\* with body {"status":"pending"} leaves it with completedDate null.
C5_StatusUpdateSetsCompletedDate ==
    [][\A id \in ReqIds :
        /\ (/\ PutTasksId(id, [status |-> "completed"], TRUE)
            /\ res'.status = 200
            /\ ~FieldIs(Target(tasks, id), "status", "completed"))
           => HasCompletedDate(Target(tasks', id))
        /\ (/\ PutTasksId(id, [status |-> "pending"], TRUE)
            /\ res'.status = 200)
           => FieldIs(Target(tasks', id), "completedDate", Null)]_vars

\* C6: a project created by POST /projects with a body lacking id, then read by
\* GET /projects/:id with the returned id, has createdAt equal to updatedAt,
\* however the clock behaves during the create.
C6_CreatedAtEqualsUpdatedAt ==
    [][\A body \in IdentBodies, r \in 0..(RndSize - 1), d1 \in 0..1, d2 \in 0..1 :
        (/\ ~Has(body, "id")
         /\ PostProjects(body, r, d1, d2, TRUE)
         /\ res'.status = 201)
        => LET read == ProjectById(projects', res'.body.id)
           IN  read.status = 200 /\ read.body.createdAt = read.body.updatedAt]_vars

\* The sum of field k over the records of arr, a missing field counting as 0.
RECURSIVE SumOver(_, _, _)
SumOver(S, arr, k) ==
    IF S = {} THEN 0
    ELSE LET i == CHOOSE x \in S : TRUE
         IN  (IF Has(arr[i], k) THEN arr[i][k] ELSE 0) + SumOver(S \ {i}, arr, k)

\* C7: the dashboard's totalBudget and budgetSpent are the sums of the budget and
\* budgetSpent fields of exactly the projects currently stored, a missing field
\* counting as 0.
C7_DashboardSumsBudgets ==
    (res.op = "GET /reports/dashboard" /\ res.status = 200) =>
        /\ res.body.totalBudget = SumOver(DOMAIN projects, projects, "budget")
        /\ res.body.budgetSpent = SumOver(DOMAIN projects, projects, "budgetSpent")

C7_Witness ==
    /\ res.op = "GET /reports/dashboard"
    /\ res.status = 200
    /\ deletedIds # {}
    /\ Len(projects) = 2
    /\ \E i \in DOMAIN projects : ~Has(projects[i], "budget")
    /\ \E i \in DOMAIN projects : FieldIs(projects[i], "budget", 30)
    /\ res.body.totalBudget = 30
    /\ res.body.budgetSpent = 5

\* round(num / den) in exact arithmetic, a tie going up.
RoundHalfUp(num, den) == (2 * num + den) \div (2 * den)

\* round(num / den) in exact arithmetic, a tie going to the even neighbour.
RoundHalfEven(num, den) ==
    LET q == num \div den
        twice == 2 * (num % den)
    IN  IF twice < den THEN q
        ELSE IF twice > den THEN q + 1
        ELSE IF q % 2 = 0 THEN q ELSE q + 1

\* The values round(num / den) may take under either convention for ties.
RoundRatio(num, den) == {RoundHalfUp(num, den), RoundHalfEven(num, den)}

\* C8: the project-progress report gives progressPercentage 0 when no task has
\* the projectId and otherwise round(100 x completed / total), a tie rounded by
\* either convention.
C8_ProgressIsRoundedRatio ==
    (res.op = "GET /reports/project-progress/:projectId" /\ res.status = 200) =>
        LET mine == { i \in DOMAIN tasks : FieldIs(tasks[i], "projectId", res.id) }
            done == { i \in mine : FieldIs(tasks[i], "status", "completed") }
        IN  IF mine = {} THEN res.body.progressPercentage = 0
            ELSE res.body.progressPercentage \in
                     RoundRatio(100 * Cardinality(done), Cardinality(mine))

\* The utilizations the claim allows for an allocation's hours.
ExactUtilization(resource) ==
    IF resource.allocatedHours = 0 THEN {0}
    ELSE RoundRatio(100 * resource.usedHours, resource.allocatedHours)

\* C9: the utilization a submitted allocation carries, and the utilization shown
\* for each allocation of the table, is 0 when allocatedHours is 0 and otherwise
\* round(100 x usedHours / allocatedHours).
C9_UtilizationIsRoundedRatio ==
    /\ \A i \in DOMAIN resources :
          resources[i].utilizationPercentage \in ExactUtilization(resources[i])
    /\ \A i \in DOMAIN ui.utilization :
          ui.utilization[i] \in ExactUtilization(appState.resources[i])

\* Some stored user has exactly the submitted username and password.
Registered(body) ==
    /\ Has(body, "username")
    /\ Has(body, "password")
    /\ \E i \in DOMAIN users :
          users[i].username = body.username /\ users[i].password = body.password

\* C10: with a readable user store POST /login answers 200 with success:true
\* exactly when some stored user has the submitted username and password, the
\* user object then being that user's record without the password; otherwise
\* it answers 401 with success:false.
C10_LoginExactMatch ==
    [][\A body \in LoginBodies :
        (PostLogin(body) /\ ~ReadFails("users.json")) =>
            IF Registered(body)
            THEN /\ res'.status = 200
                 /\ res'.body.success = TRUE
                 /\ \E i \in DOMAIN users :
                       /\ users[i].username = body.username
                       /\ users[i].password = body.password
                       /\ DOMAIN res'.body.user = (DOMAIN users[i]) \ {"password"}
                       /\ \A k \in DOMAIN res'.body.user :
                             res'.body.user[k] = users[i][k]
            ELSE /\ res'.status = 401
                 /\ res'.body.success = FALSE]_vars

C10_Witness ==
    /\ res.op = "POST /login"
    /\ res.status = 200
    /\ Len(users) = 2
    /\ users[1].username = users[2].username
    /\ res.body.user = [id |-> <<0, 2>>, username |-> "admin", role |-> "team_member"]

\* The store us without the records of the username that body submits.
WithoutUsername(us, body) ==
    SelectSeq(us, LAMBDA u : ~SameField(u, body, "username"))

\* The records that carry the username of body with another password.
SameNameOtherPassword(body) ==
    { u \in UserRecords :
        SameField(u, body, "username") /\ ~SameField(u, body, "password") }

\* C11: the answer to a failed POST /login is the same, in status and body, for
\* the store as it is, for the store without the submitted username, and for
\* the store with one more record of that username under another password.
C11_FailedLoginHidesUsername ==
    [][\A password \in Passwords :
        LET body == [username |-> ProbedUsername, password |-> password]
        IN  (PostLogin(body) /\ res'.status = 401) =>
                /\ LET absent == LoginResponse(WithoutUsername(users, body), body)
                   IN  absent.status = res'.status /\ absent.body = res'.body
                /\ \A u \in SameNameOtherPassword(body) :
                      LET present == LoginResponse(Append(users, u), body)
                      IN  present.status = res'.status /\ present.body = res'.body]_vars

C11_Witness ==
    /\ res.op = "POST /login"
    /\ res.status = 401
    /\ \E i \in DOMAIN users : users[i].username = ProbedUsername

\* C12: GET /users answers one entry per stored user, in stored order, each the
\* stored record without its password field; and a successful login's user
\* object has no password field either.
C12_NoPasswordInResponses ==
    /\ (res.op = "GET /users" /\ res.status = 200) =>
          /\ Len(res.body) = Len(users)
          /\ \A i \in DOMAIN users :
                /\ "password" \notin DOMAIN res.body[i]
                /\ DOMAIN res.body[i] = (DOMAIN users[i]) \ {"password"}
                /\ \A k \in DOMAIN res.body[i] : res.body[i][k] = users[i][k]
    /\ (res.op = "POST /login" /\ res.status = 200) =>
          "password" \notin DOMAIN res.body.user

C12_Witness ==
    /\ res.op = "GET /users"
    /\ res.status = 200
    /\ Len(res.body) = 2
    /\ res.body[1].id = <<0, 1>>
    /\ res.body[2].id = SeedId

\* C13: a request that finds its data file missing or malformed is answered by
\* the handler's own 500 response with an error message; no handler throws.
C13_UnreadableFileAnswered500 ==
    res.status = 500 => (Has(res.body, "error") /\ ~Has(res.body, "uncaught"))

\* The records of arr whose id is not id, in their order.
Remaining(arr, id) == SelectSeq(arr, LAMBDA p : ~FieldIs(p, "id", id))

\* What a DELETE step on identifier id makes of collection before.
DeleteOutcome(before, after, id) ==
    /\ res'.status = 200 => Len(after) < Len(before)
    /\ ~Found(before, id) => (res'.status = 404 /\ after = before)
    /\ Found(before, id) => res'.status \in {200, 500}
    /\ (Found(before, id) /\ res'.status = 200) => after = Remaining(before, id)
    /\ res'.status # 200 => after = before

\* C14: DELETE /projects/:id and DELETE /tasks/:id report success only when the
\* stored collection became shorter; an id that no record has gives 404 and an
\* unchanged collection; a matching id removes every record with that id and
\* keeps all the others.
C14_DeleteRemovesExactlyMatches ==
    [][\A id \in ReqIds, wok \in BOOLEAN :
        /\ DeleteProjectsId(id, wok) => DeleteOutcome(projects, projects', id)
        /\ DeleteTasksId(id, wok) => DeleteOutcome(tasks, tasks', id)]_vars

C14_Witness ==
    /\ res.op = "DELETE /tasks/:id"
    /\ res.status = 200
    /\ Len(tasks) = 1
    /\ tasks[1].id # res.id

\* C15: PUT /projects/:id, PUT /tasks/:id and PUT /resources/:id with an id that
\* no stored record has answer 404 and leave the stored collection as it was.
C15_PutUnknownIdNotFound ==
    [][\A id \in ReqIds, body \in StampBodies, wok \in BOOLEAN :
        /\ (PutProjectsId(id, body, wok) /\ ~Found(projects, id)) =>
              (res'.status = 404 /\ projects' = projects)
        /\ (PutTasksId(id, body, wok) /\ ~Found(tasks, id)) =>
              (res'.status = 404 /\ tasks' = tasks)
        /\ (PutResourcesId(id, body, wok) /\ ~Found(resources, id)) =>
              (res'.status = 404 /\ resources' = resources)]_vars

C15_Witness ==
    /\ res.op = "PUT /resources/:id"
    /\ res.status = 404
    /\ res.id = <<1, 0>>
    /\ resources = <<SeedResource>>

\* A successful PUT step on identifier id stamps the record with the clock's
\* reading, in the file and in the reply, and does not move updatedAt back.
Refreshed(before, after, id) ==
    /\ Target(after, id).updatedAt = ToISOString(now)
    /\ res'.body.updatedAt = ToISOString(now)
    /\ Target(after, id).updatedAt[2] >= Target(before, id).updatedAt[2]

\* C16: every successful PUT /projects/:id and PUT /tasks/:id sets updatedAt to
\* the server clock's reading, whatever updatedAt the body carries, and a
\* record's updatedAt never decreases.
C16_UpdateRefreshesUpdatedAt ==
    [][\A id \in ReqIds, body \in UpdatedAtBodies :
        /\ (PutProjectsId(id, body, TRUE) /\ res'.status = 200) =>
              Refreshed(projects, projects', id)
        /\ (PutTasksId(id, body, TRUE) /\ res'.status = 200) =>
              Refreshed(tasks, tasks', id)]_vars

C16_Witness ==
    /\ res.op = "PUT /tasks/:id"
    /\ res.status = 200
    /\ now = 2
    /\ res.body.updatedAt = ToISOString(2)
    /\ tasks[1].updatedAt = ToISOString(2)
    /\ projects[1].updatedAt = ToISOString(1)

\* The handler of entry e answered with success.
Succeeded(e) == e.status \in {200, 201}

\* Collection store holds the change that request e.req asks for: a record
\* (the one of the named id, for an update) with every field of the body.
Carries(store, e) ==
    \E i \in DOMAIN store :
        /\ e.req.kind = "PUT" => FieldIs(store[i], "id", e.req.id)
        /\ \A k \in DOMAIN e.req.body : FieldIs(store[i], k, e.req.body[k])

C18_TaskListFilter ==
    [][\A projectId \in ProjectIds \cup {NoProject} :
        (GetTasks(projectId) /\ ~ReadFails("tasks.json")) =>
            /\ res'.status = 200
            /\ res'.body =
                  IF projectId = NoProject THEN tasks
                  ELSE SelectSeq(tasks, LAMBDA t : FieldIs(t, "projectId", projectId))
            /\ tasks' = tasks]_vars

C18_Witness ==
    /\ res.op = "GET /tasks"
    /\ res.status = 200
    /\ Len(tasks) = 3
    /\ ~Has(tasks[2], "projectId")
    /\ Len(res.body) = 2
    /\ res.body[1].id = <<0, 1>>
    /\ res.body[2].id = <<0, 3>>

\* The project records a request of NextSessions can store or return.
SessionRecords ==
    { [id |-> i, createdAt |-> c, updatedAt |-> u] :
        i \in ReqIds \cup {generateId(now, 0)},
        c \in {SeedProject.createdAt, ToISOString(now)},
        u \in {SeedProject.updatedAt, ToISOString(now)} }

\* The bodies a reply to a request of NextSessions can have.
SessionBodies ==
    SessionRecords
        \cup { [error |-> m] : m \in {"Project not found", "Failed to create project",
                                      "Failed to update project",
                                      "Failed to delete project", "Not logged in"} }
        \cup { [success |-> TRUE, message |-> "Project deleted successfully"] }

\* The projects files a request of NextSessions can leave behind.
SessionFiles ==
    {projects}
        \cup { Remaining(projects, id) : id \in ReqIds }
        \cup { Append(projects, p) : p \in SessionRecords }
        \cup { [projects EXCEPT ![i] = p] : i \in DOMAIN projects, p \in SessionRecords }

\* Request A has the same possible replies and leaves the same possible files
\* before this step and after it.
SameOutcome(A) ==
    /\ \A status \in {200, 201, 401, 404, 500}, body \in SessionBodies :
          (ENABLED (A /\ res'.status = status /\ res'.body = body))
              <=> (ENABLED (A /\ res'.status = status /\ res'.body = body))'
    /\ \A file \in SessionFiles :
          (ENABLED (A /\ projects' = file)) <=> (ENABLED (A /\ projects' = file))'
    /\ (ENABLED (A /\ projects' \notin SessionFiles))
          <=> (ENABLED (A /\ projects' \notin SessionFiles))'
    /\ (ENABLED (A /\ res'.body \notin SessionBodies))
          <=> (ENABLED (A /\ res'.body \notin SessionBodies))'

\* C19: POST /login changes no stored collection, and every other request has
\* the same reply and leaves the same stored state whether or not a login,
\* successful or failed, came just before it.
C19_LoginLeavesNoState ==
    [][\A login \in SessionLogins :
        PostLogin(login) =>
            /\ <<users, projects, tasks, resources>>' = <<users, projects, tasks, resources>>
            /\ \A id \in ReqIds : SameOutcome(GetProjectsId(id))
            /\ \A body \in IdBodies, wok \in BOOLEAN :
                  SameOutcome(PostProjects(body, 0, 0, 0, wok))
            /\ \A id \in ReqIds, body \in IdBodies, wok \in BOOLEAN :
                  SameOutcome(PutProjectsId(id, body, wok))
            /\ \A id \in ReqIds, wok \in BOOLEAN :
                  SameOutcome(DeleteProjectsId(id, wok))]_vars

C19_Witness ==
    /\ res.op = "POST /login"
    /\ res.status = 200
    /\ Len(projects) = 2
    /\ deletedIds # {}

\* C20: every stored allocation that has usedHours and allocatedHours has a
\* utilizationPercentage equal to round(100 x usedHours / allocatedHours), 0
\* when allocatedHours is 0.
C20_StoredUtilizationIsCurrent ==
    \A i \in DOMAIN resources :
        (Has(resources[i], "usedHours") /\ Has(resources[i], "allocatedHours")) =>
            /\ Has(resources[i], "utilizationPercentage")
            /\ resources[i].utilizationPercentage \in ExactUtilization(resources[i])

\* A PUT of body on identifier id took collection before to after as a shallow
\* merge, the fields of exempt aside: every field of the body has the body's
\* value, every other field but updatedAt its previous value, the record is
\* where it was and every other record is as it was.
ShallowMerge(before, after, id, body, exempt) ==
    LET index == FindIndex(before, id)
    IN  /\ Len(after) = Len(before)
        /\ \A i \in (DOMAIN before) \ {index} : after[i] = before[i]
        /\ DOMAIN after[index] = (DOMAIN before[index]) \cup (DOMAIN body) \cup {"updatedAt"}
        /\ \A k \in (DOMAIN body) \ exempt : after[index][k] = body[k]
        /\ \A k \in (DOMAIN before[index]) \ ((DOMAIN body) \cup {"updatedAt"}) :
              after[index][k] = before[index][k]

\* Every successful PUT on a project or a task is a shallow merge, the fields of
\* exempt aside.
EveryPutMerges(exempt) ==
    \A id \in ReqIds :
        /\ \A body \in NestedBodies :
              (PutProjectsId(id, body, TRUE) /\ res'.status = 200) =>
                  ShallowMerge(projects, projects', id, body, exempt)
        /\ \A body \in TagBodies :
              (PutTasksId(id, body, TRUE) /\ res'.status = 200) =>
                  ShallowMerge(tasks, tasks', id, body, exempt)

ProjectWrites == {"POST /projects", "PUT /projects/:id", "DELETE /projects/:id"}

TaskWrites == {"POST /tasks", "PUT /tasks/:id", "DELETE /tasks/:id"}

ResourceWrites == {"POST /resources", "PUT /resources/:id"}

\* C22: no request changes the users collection; a collection changes only in
\* a request of one of its own writing routes, so GET and report requests and
\* the login change nothing; and DELETE /projects/:id leaves the tasks and the
\* resources as they were.
C22_RequestsWriteOwnCollection ==
    [][/\ users' = users
       /\ projects' # projects => res'.op \in ProjectWrites
       /\ tasks' # tasks => res'.op \in TaskWrites
       /\ resources' # resources => res'.op \in ResourceWrites
       /\ \A id \in ReqIds, wok \in BOOLEAN :
             DeleteProjectsId(id, wok) => (tasks' = tasks /\ resources' = resources)]_vars

C22_Witness ==
    /\ res.op = "DELETE /projects/:id"
    /\ res.status = 200
    /\ ~Found(projects, res.id)
    /\ \E i \in DOMAIN tasks : FieldIs(tasks[i], "projectId", res.id)
    /\ \E i \in DOMAIN resources : FieldIs(resources[i], "projectId", res.id)

\* The references of body are the ones record carries.
CarriesReferences(record, body) ==
    \A k \in (DOMAIN body) \cap {"projectId", "userId", "assignedTo", "createdBy"} :
        FieldIs(record, k, body[k])

C25_ClientProgressIsServerProgress ==
    (/\ res.op = "GET /reports/project-progress/:projectId"
     /\ res.status = 200
     /\ Has(ui, "projectProgress")
     /\ appState.tasks = tasks) =>
        \A i \in DOMAIN ui.projectProgress :
            appState.projects[i].id = res.id =>
                ui.projectProgress[i] = res.body.progressPercentage

C25_Witness ==
    /\ res.op = "GET /reports/project-progress/:projectId"
    /\ res.id = <<0, 1>>
    /\ Has(ui, "projectProgress")
    /\ res.body.totalTasks = 8
    /\ res.body.completedTasks = 1
    /\ ui.projectProgress = <<13, 100, 0>>

\* The stored task has a completion date exactly when it is completed.
DatedIffCompleted(task) ==
    FieldIs(task, "status", "completed")
        <=> (Has(task, "completedDate") /\ task.completedDate # Null)

\* A successful save of the task form took the stored tasks from before to
\* after the way the form's status asks.
SavedAsTheFormAsks(before, after) ==
    IF form.taskId = NoId
    THEN LET new == after[Len(after)]
         IN  /\ Len(after) = Len(before) + 1
             /\ new.status = form.status
             /\ new.completedDate = IF form.status = "completed"
                                     THEN ToISOString(now) ELSE Null
    ELSE LET index == FindIndex(before, form.taskId)
             old == before[index]
             new == after[index]
         IN  /\ new.status = form.status
             /\ form.status # "completed" => new.completedDate = Null
             /\ (form.status = "completed" /\ old.status # "completed") =>
                    new.completedDate = ToISOString(now)
             /\ (form.status = "completed" /\ old.status = "completed") =>
                    new.completedDate = old.completedDate

\* C26: of the tasks created and edited through the task form, each stored one
\* has a non-null completedDate exactly when its status is 'completed'; a save
\* sets completedDate to the current time when the status becomes completed,
\* to null when the submitted status is not completed, and keeps it when a
\* completed task is saved as completed.
C26_CompletedDateFollowsStatus ==
    [][/\ \A i \in DOMAIN tasks' : DatedIffCompleted(tasks'[i])
       /\ (/\ form.open
           /\ Has(form, "taskId")
           /\ ui'.notification \in {"Task updated successfully",
                                     "Task created successfully"}
           /\ res'.op = "GET /tasks"
           /\ HandleTaskSubmit(0, TRUE)) => SavedAsTheFormAsks(tasks, tasks')]_vars

C26_Witness ==
    /\ ui.notification = "Task updated successfully"
    /\ Len(tasks) = 2
    /\ tasks[1].status = "completed"
    /\ tasks[1].completedDate = ToISOString(0)
    /\ tasks[1].updatedAt = ToISOString(1)
    /\ tasks[2].status = "in-progress"
    /\ tasks[2].completedDate = Null

\* C27: when the server has answered the login with 401, the page shows the
\* message of the server's answer, localStorage holds no user and the submit
\* button is enabled.
C27_RejectedLoginShowsServerMessage ==
    (res.op = "POST /login" /\ res.status = 401 /\ appState.localStorage = Null) =>
        /\ ui.errorMessage = res.body.message
        /\ ~ui.submitDisabled

\* The open project form names more money spent than the budget, and nothing
\* else stands in the way of saving it.
OverBudgetForm ==
    /\ form.open
    /\ Has(form, "budgetSpent")
    /\ form.budgetSpent > form.budget
    /\ isValidDateRange(form.startDate, form.endDate)
    /\ form.projectId = NoId => Len(projects) < MaxLen

\* The open resource form names more hours used than allocated.
OverHoursForm ==
    /\ form.open
    /\ Has(form, "resourceId")
    /\ form.usedHours > form.allocatedHours
    /\ isValidDateRange(form.startDate, form.endDate)
    /\ form.resourceId = NoId => Len(resources) < MaxLen

\* Submitting the project form changes the stored projects.
ProjectFormIsStored == HandleProjectSubmit(0, TRUE) /\ projects' # projects

\* The stored allocations hold one with the hours of the form f.
HoursStored(rs, f) ==
    \E i \in 1..Len(rs) :
        rs[i].usedHours = f.usedHours /\ rs[i].allocatedHours = f.allocatedHours

\* The record the request has written carries the body's amounts.
StoredAsSent(stored, body) == \A k \in DOMAIN body : Has(stored, k) /\ stored[k] = body[k]

\* C28: a cap is only a warning of the client.  Whenever the project form
\* holds budgetSpent > budget, submitting it can still store the project; a
\* resource form with usedHours > allocatedHours, submitted and the warning
\* confirmed, is stored with its hours; and a request whose body exceeds a cap
\* is stored by the server with the body's values.
C28_CapsOnlyWarn ==
    [][/\ OverBudgetForm' => (ENABLED ProjectFormIsStored)'
       /\ (OverHoursForm /\ res'.op = "GET /resources"
              /\ HandleResourceSubmit(TRUE, 0, 0, TRUE)) =>
            HoursStored(resources', form)
       /\ \A body \in SpentBodies :
            /\ (res'.op = "POST /projects" /\ res'.status = 201
                    /\ PostProjects(body, 0, 0, 0, TRUE)) =>
                  StoredAsSent(projects'[Len(projects')], body)
            /\ \A id \in ReqIds :
                  (res'.op = "PUT /projects/:id" /\ res'.status = 200
                      /\ PutProjectsId(id, body, TRUE)) =>
                    StoredAsSent(projects'[FindIndex(projects', id)], body)
       /\ \A body \in UsedHoursBodies :
            /\ (res'.op = "POST /resources" /\ res'.status = 201
                    /\ PostResources(body, 0, 0, TRUE)) =>
                  StoredAsSent(resources'[Len(resources')], body)
            /\ \A id \in ReqIds :
                  (res'.op = "PUT /resources/:id" /\ res'.status = 200
                      /\ PutResourcesId(id, body, TRUE)) =>
                    StoredAsSent(resources'[FindIndex(resources', id)], body)]_vars

\* The stored project p has lost its lists and is managed by user.
ListsEmptied(p, user) ==
    /\ p.teamMembers = <<>>
    /\ p.milestones = <<>>
    /\ p.risks = <<>>
    /\ p.projectManager = user.id

\* C29: when the edit form of a stored project is submitted and the update is
\* saved, the stored project has empty teamMembers, milestones and risks and
\* the current user as projectManager, whatever these fields held before.
C29_EditEmptiesLists ==
    [][(form.open /\ Has(form, "budgetSpent") /\ form.projectId # NoId
          /\ ui'.notification = "Project updated successfully"
          /\ HandleProjectSubmit(0, TRUE)) =>
        ListsEmptied(projects'[FindIndex(projects', form.projectId)],
                     appState.currentUser)]_vars

\* The stored project, which had a team, milestones, risks and another manager
\* when the page was loaded, has been saved through the edit form.
C29_Witness ==
    /\ ui.notification = "Project updated successfully"
    /\ Len(projects) = 1
    /\ projects[1].id = SeedId
    /\ ListsEmptied(projects[1], PageUser)
    /\ projects[1].updatedAt = ToISOString(1)

\* The inequalities of a dashboard body.
DashboardBounded(stats) ==
    /\ stats.activeProjects <= stats.totalProjects
    /\ stats.completedTasks + stats.inProgressTasks <= stats.totalTasks

\* The inequalities of a project-progress body.
ProgressBounded(report) ==
    /\ report.pendingTasks + report.inProgressTasks + report.completedTasks
          <= report.totalTasks
    /\ 0 <= report.progressPercentage
    /\ report.progressPercentage <= 100

\* C30: whatever status values are stored, the dashboard the server would send
\* has activeProjects <= totalProjects and completedTasks + inProgressTasks <=
\* totalTasks, every project-progress report has pendingTasks + inProgressTasks
\* + completedTasks <= totalTasks and 0 <= progressPercentage <= 100, and the
\* report last sent satisfies the same.
C30_ReportsBounded ==
    /\ DashboardBounded(DashboardStats(projects, tasks, resources))
    /\ \A projectId \in ProjectIds : ProgressBounded(ProgressReport(tasks, projectId))
    /\ (res.op = "GET /reports/dashboard" /\ res.status = 200) =>
          DashboardBounded(res.body)
    /\ (res.op = "GET /reports/project-progress/:projectId" /\ res.status = 200) =>
          ProgressBounded(res.body)

\* A progress report has been sent for a project with a completed task and a
\* task of a status no report counts.
C30_Witness ==
    /\ res.op = "GET /reports/project-progress/:projectId"
    /\ res.status = 200
    /\ res.body.totalTasks = 2
    /\ res.body.completedTasks = 1
    /\ res.body.pendingTasks + res.body.inProgressTasks = 0
    /\ res.body.progressPercentage = 50
    /\ \E i \in 1..Len(tasks) : FieldIs(tasks[i], "status", "archived")

====
